---- MODULE Spec2Model ----
(***************************************************************************)
(* Unique-event aggregation of per-run CSV files in the meson-structure    *)
(* analysis scripts.  The repository holds several copies of the           *)
(* aggregator that differ in their error handling:                         *)
(*                                                                         *)
(*   "concat"          concat_csvs_with_unique_events of                   *)
(*                     csv_reco_dis_analysis.py, beam_t_error.py,          *)
(*                     scattered_electron.py, open_multiple_example.py     *)
(*                     (no error handling at all);                         *)
(*   "aa_concat"       concat_csvs_with_unique_events of aa_helpers.py     *)
(*                     (every failure is raised to the caller);            *)
(*   "load_multiple"   load_multiple_csvs / load_csv_with_unique_events of *)
(*                     reco_dis_all.py and csv_b2root.py (every failure is *)
(*                     logged and the file skipped; the list is sorted);   *)
(*   "extract_combine" extract_and_combine_csvs of                         *)
(*                     compare_reco_mc_differences3.py (plain              *)
(*                     concatenation of zipped CSVs, no ID offset).        *)
(*                                                                         *)
(* One behaviour of the model is one call of one of these functions on one *)
(* ordered list of files; each loop iteration is one step.                 *)
(***************************************************************************)
EXTENDS Integers, Sequences, FiniteSets, TLC

VARIABLES variant, files, i, offset, dfs, pc, result, err, log, exitCode
VARIABLES file_pairs, pair_i, mc_offset, reco_offset, mc_dfs, reco_dfs,
    pair_pc, mc_df, reco_df, merged_df
VARIABLES study, tmax, trees, tree_i, left_at, lamE_j, flat, xB_evt_all,
    nlam_evt_all, xK_cand_all, Ngen_evt, Nreco_lam, M, xK_cand, nlam_evt, eps,
    P, lam_pc, lam_log
VARIABLES fn, generated, selected, counts, eff_eps, eff_err2, eff_P,
    Nexp_xB_Q2, Nexp_xK_Q2, eff_pc
VARIABLES script, indir, returncode, out_exists, file_idx, macro_idx,
    invoked, conv_pc, conv_exit
VARIABLES cli_script, cli_args, use_glob, cli_stderr, cli_stdout, cli_pc,
    cli_exit
VARIABLES input_files, container_script_template, container_job_template,
    generate_container_script, container_script_generate_func,
    generated_scripts, jobs_dir, job_i, job_pc, job_err
VARIABLES b2r_args, b2r_fs, b2r_k, b2r_pairs, b2r_missing, b2r_pc,
    b2r_exit, b2r_stderr, b2r_analysed
VARIABLES hst_fn, hst_column, hst_data, hst_axis, hst_pc
VARIABLES pl_disk, pl_hepmc, pl_action, pl_todo, pl_test, pl_pc, pl_hist,
    pl_last
VARIABLES pr_initial, pr_dir, pr_listing, pr_k, pr_run, pr_renamed,
    pr_overwritten, pr_pc

aggVars == <<variant, files, i, offset, dfs, pc, result, err, log,
      exitCode>>
pairVars == <<file_pairs, pair_i, mc_offset, reco_offset, mc_dfs,
      reco_dfs, pair_pc, mc_df, reco_df, merged_df>>
lamVars == <<study, tmax, trees, tree_i, left_at, lamE_j, flat,
      xB_evt_all, nlam_evt_all, xK_cand_all, Ngen_evt, Nreco_lam, M, xK_cand,
      nlam_evt, eps, P, lam_pc, lam_log>>
effVars == <<fn, generated, selected, counts, eff_eps, eff_err2, eff_P,
      Nexp_xB_Q2, Nexp_xK_Q2, eff_pc>>
convVars == <<script, indir, returncode, out_exists, file_idx, macro_idx,
      invoked, conv_pc, conv_exit>>
cliVars == <<cli_script, cli_args, use_glob, cli_stderr, cli_stdout,
      cli_pc, cli_exit>>
jobVars == <<input_files, container_script_template,
      container_job_template, generate_container_script,
      container_script_generate_func, generated_scripts, jobs_dir, job_i,
      job_pc, job_err>>
b2rVars == <<b2r_args, b2r_fs, b2r_k, b2r_pairs, b2r_missing, b2r_pc,
      b2r_exit, b2r_stderr, b2r_analysed>>
hstVars == <<hst_fn, hst_column, hst_data, hst_axis, hst_pc>>
plVars == <<pl_disk, pl_hepmc, pl_action, pl_todo, pl_test, pl_pc,
      pl_hist, pl_last>>
prVars == <<pr_initial, pr_dir, pr_listing, pr_k, pr_run, pr_renamed,
      pr_overwritten, pr_pc>>

vars == <<aggVars, pairVars, lamVars, effVars, convVars, cliVars, jobVars,
         b2rVars, hstVars, plVars, prVars>>

\* The values of the variables of a script that is not running.
aggIdle ==
    /\ variant = "none"
    /\ files = <<>>
    /\ i = 0
    /\ offset = 0
    /\ dfs = <<>>
    /\ pc = "idle"
    /\ result = <<>>
    /\ err = "none"
    /\ log = <<>>
    /\ exitCode = -1

pairIdle ==
    /\ file_pairs = <<>>
    /\ pair_i = 0
    /\ mc_offset = 0
    /\ reco_offset = 0
    /\ mc_dfs = <<>>
    /\ reco_dfs = <<>>
    /\ pair_pc = "idle"
    /\ mc_df = <<>>
    /\ reco_df = <<>>
    /\ merged_df = {}

lamIdle ==
    /\ study = "none"
    /\ tmax = <<>>
    /\ trees = <<>>
    /\ tree_i = 0
    /\ left_at = "idle"
    /\ lamE_j = <<>>
    /\ flat = <<>>
    /\ xB_evt_all = <<>>
    /\ nlam_evt_all = <<>>
    /\ xK_cand_all = <<>>
    /\ Ngen_evt = <<>>
    /\ Nreco_lam = <<>>
    /\ M = <<>>
    /\ xK_cand = <<>>
    /\ nlam_evt = <<>>
    /\ eps = <<>>
    /\ P = <<>>
    /\ lam_pc = "idle"
    /\ lam_log = <<>>

effIdle ==
    /\ fn = "none"
    /\ generated = <<>>
    /\ selected = <<>>
    /\ counts = <<>>
    /\ eff_eps = <<>>
    /\ eff_err2 = <<>>
    /\ eff_P = <<>>
    /\ Nexp_xB_Q2 = <<>>
    /\ Nexp_xK_Q2 = <<>>
    /\ eff_pc = "idle"

convIdle ==
    /\ script = "none"
    /\ indir = <<>>
    /\ returncode = <<>>
    /\ out_exists = {}
    /\ file_idx = 0
    /\ macro_idx = 0
    /\ invoked = <<>>
    /\ conv_pc = "idle"
    /\ conv_exit = -1

cliIdle ==
    /\ cli_script = "none"
    /\ cli_args = <<>>
    /\ use_glob = FALSE
    /\ cli_stderr = <<>>
    /\ cli_stdout = <<>>
    /\ cli_pc = "idle"
    /\ cli_exit = -1

jobIdle ==
    /\ input_files = <<>>
    /\ container_script_template = "None"
    /\ container_job_template = "unset"
    /\ generate_container_script = "unset"
    /\ container_script_generate_func = "default"
    /\ generated_scripts = <<>>
    /\ jobs_dir = {}
    /\ job_i = 0
    /\ job_pc = "idle"
    /\ job_err = "none"

b2rIdle ==
    /\ b2r_args = <<>>
    /\ b2r_fs = {}
    /\ b2r_k = 0
    /\ b2r_pairs = <<>>
    /\ b2r_missing = <<>>
    /\ b2r_pc = "idle"
    /\ b2r_exit = -1
    /\ b2r_stderr = <<>>
    /\ b2r_analysed = <<>>

hstIdle ==
    /\ hst_fn = "none"
    /\ hst_column = "none"
    /\ hst_data = <<>>
    /\ hst_axis = <<>>
    /\ hst_pc = "idle"

plIdle ==
    /\ pl_disk = <<>>
    /\ pl_hepmc = {}
    /\ pl_action = "none"
    /\ pl_todo = <<>>
    /\ pl_test = FALSE
    /\ pl_pc = "idle"
    /\ pl_hist = <<>>
    /\ pl_last = <<>>

prIdle ==
    /\ pr_initial = {}
    /\ pr_dir = {}
    /\ pr_listing = <<>>
    /\ pr_k = 0
    /\ pr_run = 0
    /\ pr_renamed = 0
    /\ pr_overwritten = {}
    /\ pr_pc = "idle"

\* A step of one script leaves the variables of the other scripts alone,
\* and a behaviour of one script starts with the others not running.
aggFrame == UNCHANGED <<pairVars, lamVars, effVars, convVars, cliVars,
      jobVars, b2rVars, hstVars, plVars, prVars>>
aggAlone == pairIdle /\ lamIdle /\ effIdle /\ convIdle /\ cliIdle /\
      jobIdle /\ b2rIdle /\ hstIdle /\ plIdle /\ prIdle

pairFrame == UNCHANGED <<aggVars, lamVars, effVars, convVars, cliVars,
      jobVars, b2rVars, hstVars, plVars, prVars>>
pairAlone == aggIdle /\ lamIdle /\ effIdle /\ convIdle /\ cliIdle /\
      jobIdle /\ b2rIdle /\ hstIdle /\ plIdle /\ prIdle

lamFrame == UNCHANGED <<aggVars, pairVars, effVars, convVars, cliVars,
      jobVars, b2rVars, hstVars, plVars, prVars>>
lamAlone == aggIdle /\ pairIdle /\ effIdle /\ convIdle /\ cliIdle /\
      jobIdle /\ b2rIdle /\ hstIdle /\ plIdle /\ prIdle

effFrame == UNCHANGED <<aggVars, pairVars, lamVars, convVars, cliVars,
      jobVars, b2rVars, hstVars, plVars, prVars>>
effAlone == aggIdle /\ pairIdle /\ lamIdle /\ convIdle /\ cliIdle /\
      jobIdle /\ b2rIdle /\ hstIdle /\ plIdle /\ prIdle

convFrame == UNCHANGED <<aggVars, pairVars, lamVars, effVars, cliVars,
      jobVars, b2rVars, hstVars, plVars, prVars>>
convAlone == aggIdle /\ pairIdle /\ lamIdle /\ effIdle /\ cliIdle /\
      jobIdle /\ b2rIdle /\ hstIdle /\ plIdle /\ prIdle

cliFrame == UNCHANGED <<aggVars, pairVars, lamVars, effVars, convVars,
      jobVars, b2rVars, hstVars, plVars, prVars>>
cliAlone == aggIdle /\ pairIdle /\ lamIdle /\ effIdle /\ convIdle /\
      jobIdle /\ b2rIdle /\ hstIdle /\ plIdle /\ prIdle

jobFrame == UNCHANGED <<aggVars, pairVars, lamVars, effVars, convVars,
      cliVars, b2rVars, hstVars, plVars, prVars>>
jobAlone == aggIdle /\ pairIdle /\ lamIdle /\ effIdle /\ convIdle /\
      cliIdle /\ b2rIdle /\ hstIdle /\ plIdle /\ prIdle

b2rFrame == UNCHANGED <<aggVars, pairVars, lamVars, effVars, convVars,
      cliVars, jobVars, hstVars, plVars, prVars>>
b2rAlone == aggIdle /\ pairIdle /\ lamIdle /\ effIdle /\ convIdle /\
      cliIdle /\ jobIdle /\ hstIdle /\ plIdle /\ prIdle

hstFrame == UNCHANGED <<aggVars, pairVars, lamVars, effVars, convVars,
      cliVars, jobVars, b2rVars, plVars, prVars>>
hstAlone == aggIdle /\ pairIdle /\ lamIdle /\ effIdle /\ convIdle /\
      cliIdle /\ jobIdle /\ b2rIdle /\ plIdle /\ prIdle

plFrame == UNCHANGED <<aggVars, pairVars, lamVars, effVars, convVars,
      cliVars, jobVars, b2rVars, hstVars, prVars>>
plAlone == aggIdle /\ pairIdle /\ lamIdle /\ effIdle /\ convIdle /\
      cliIdle /\ jobIdle /\ b2rIdle /\ hstIdle /\ prIdle

prFrame == UNCHANGED <<aggVars, pairVars, lamVars, effVars, convVars,
      cliVars, jobVars, b2rVars, hstVars, plVars>>
prAlone == aggIdle /\ pairIdle /\ lamIdle /\ effIdle /\ convIdle /\
      cliIdle /\ jobIdle /\ b2rIdle /\ hstIdle /\ plIdle

(***************************************************************************)
(* Bounds and input pools.                                                 *)
(***************************************************************************)
\* Longest file list handed to an aggregator.
MaxFiles == 3

\* The value pandas gives to an undefined number (numpy.nan).  Event IDs of
\* the input files are event counters, i.e. naturals, so -1 is free.
NaN == -1

\* Event-ID columns an input table may hold: empty (header only), sorted,
\* unsorted, with IDs repeated inside the file, not starting at 0.
EvtColumns ==
    { <<>>, <<1>>, <<0, 1>>, <<1, 0>>, <<0, 1, 1>>, <<0, 1, 2>> }

EventColumns ==
    { <<>>, <<0>>, <<1, 0>>, <<1, 1>> }

\* What pd.read_csv can find at a path.  kind: "missing" (no such file),
\* "emptycsv" (zero bytes, pandas.errors.EmptyDataError), "corrupt" (any
\* other read error, e.g. a bad zip member), "table" (a readable CSV).
\* col is the name of the table's ID column: "evt", "event", or "x" for a
\* table that has neither; ids are the values of that column, row by row.
FileContents ==
    { [kind |-> k, col |-> "x", ids |-> <<>>] :
          k \in {"missing", "emptycsv", "corrupt"} }
    \cup { [kind |-> "table", col |-> "x", ids |-> s] : s \in {<<>>, <<0>>} }
    \cup { [kind |-> "table", col |-> "event", ids |-> s] : s \in EventColumns }
    \cup { [kind |-> "table", col |-> "evt", ids |-> s] : s \in EvtColumns }

Variants == {"concat", "aa_concat", "load_multiple", "extract_combine"}

\* The orders in which a caller passes n files named 1..n; a name stands for
\* the rank of the file's path in Python's string order.  Ascending (a shell
\* glob), descending, and rotated by one.
CallerOrders(n) ==
    { [k \in 1..n |-> k],
      [k \in 1..n |-> n + 1 - k],
      [k \in 1..n |-> (k % n) + 1] }

(***************************************************************************)
(* pandas primitives.                                                      *)
(***************************************************************************)
\* Series + scalar, with NaN absorbing.
Add(a, b) == IF a = NaN \/ b = NaN THEN NaN ELSE a + b

\* read_csv with header=None: the header line becomes a data row, whose ID
\* is not a number.
read_csv_header_as_row(f) ==
    <<[src |-> f.name, row |-> 0, orig |-> NaN, evt |-> NaN]>>
    \o [k \in 1..Len(f.ids) |->
          [src |-> f.name, row |-> k, orig |-> f.ids[k], evt |-> f.ids[k]]]

\* pd.read_csv of a readable table: one row per line.  src and row record
\* where the row comes from, orig is the ID as stored in the file.
read_csv(f) ==
    [k \in 1..Len(f.ids) |->
        [src |-> f.name, row |-> k, orig |-> f.ids[k], evt |-> f.ids[k]]]

\* df[key] = df.index + offset: the rows renumbered instead of shifted.
AddOffset_Reindex(df, off) ==
    [k \in 1..Len(df) |-> [df[k] EXCEPT !.evt = Add(k - 1, off)]]

\* df[key] = df[key] + offset
AddOffset(df, off) ==
    [k \in 1..Len(df) |-> [df[k] EXCEPT !.evt = Add(@, off)]]

\* Series.min() in the place of Series.max().
SeriesMax_Min(df) ==
    LET vals == {df[k].evt : k \in 1..Len(df)} \ {NaN}
    IN  IF vals = {} THEN NaN
        ELSE CHOOSE m \in vals : \A v \in vals : m <= v

\* Series.max(): NaN are skipped, the maximum of nothing is NaN.
SeriesMax(df) ==
    LET vals == {df[k].evt : k \in 1..Len(df)} \ {NaN}
    IN  IF vals = {} THEN NaN
        ELSE CHOOSE m \in vals : \A v \in vals : v <= m

\* pd.concat(dfs, ignore_index=True): the frames one after the other.
RECURSIVE Concat(_)
Concat(frames) ==
    IF frames = <<>> THEN <<>> ELSE Head(frames) \o Concat(Tail(frames))

\* The exception pd.read_csv raises on a path that holds no readable table.
ReadError(f) ==
    CASE f.kind = "missing"  -> "FileNotFoundError"
      [] f.kind = "emptycsv" -> "EmptyDataError"
      [] OTHER               -> "BadZipFile"

\* Python's sorted() on a list of paths (insertion by name).
RECURSIVE Insert(_, _)
Insert(f, s) ==
    IF s = <<>> THEN <<f>>
    ELSE IF f.name <= Head(s).name THEN <<f>> \o s
    ELSE <<Head(s)>> \o Insert(f, Tail(s))

\* The list taken as passed, the call of sorted() left out.
sorted_identity(s) == s

RECURSIVE sorted(_)
sorted(s) == IF s = <<>> THEN <<>> ELSE Insert(Head(s), sorted(Tail(s)))

(***************************************************************************)
(* Initial states: one call on one list of files.                          *)
(***************************************************************************)
Init ==
    /\ variant \in Variants
    /\ \E n \in 0..MaxFiles :
         \E c \in [1..n -> FileContents] :
           \E p \in CallerOrders(n) :
             files = [k \in 1..n |->
                        [name |-> p[k], kind |-> c[k].kind,
                         col |-> c[k].col, ids |-> c[k].ids]]
    /\ i = 1
    /\ offset = 0
    /\ dfs = <<>>
    /\ pc = "loop"
    /\ result = <<>>
    /\ err = "none"
    /\ log = <<>>
    /\ exitCode = -1
    /\ aggAlone

Raise(e) ==
    /\ pc' = "raised"
    /\ err' = e
    /\ UNCHANGED <<variant, files, i, offset, dfs, result, log, exitCode>>

(***************************************************************************)
(* concat_csvs_with_unique_events, csv_reco_dis_analysis.py:19-37          *)
(* (the same body in beam_t_error.py, scattered_electron.py and            *)
(* open_multiple_example.py).                                              *)
(***************************************************************************)
concat_step ==
    /\ variant = "concat"
    /\ aggFrame
    /\ pc = "loop"
    /\ i <= Len(files)
    /\ LET f == files[i] IN
         IF f.kind # "table" THEN Raise(ReadError(f))
         ELSE IF f.col # "evt" THEN Raise("KeyError")
         ELSE LET df == AddOffset(read_csv(f), offset) IN
                /\ offset' = Add(SeriesMax(df), 1)
                /\ dfs' = Append(dfs, df)
                /\ i' = i + 1
                /\ UNCHANGED <<variant, files, pc, result, err, log, exitCode>>

concat_return ==
    /\ variant = "concat"
    /\ aggFrame
    /\ pc = "loop"
    /\ i > Len(files)
    /\ IF dfs = <<>> THEN Raise("ValueError")
       ELSE /\ result' = Concat(dfs)
            /\ pc' = "done"
            /\ UNCHANGED <<variant, files, i, offset, dfs, err, log, exitCode>>

(***************************************************************************)
(* concat_csvs_with_unique_events, aa_helpers.py:131-191.  The ID column   *)
(* of this copy is 'event'.                                                *)
(***************************************************************************)
aa_concat_step ==
    /\ variant = "aa_concat"
    /\ aggFrame
    /\ pc = "loop"
    /\ files # <<>>
    /\ i <= Len(files)
    /\ LET f == files[i] IN
         IF f.kind = "missing" THEN Raise("FileNotFoundError")
         ELSE IF f.kind # "table" THEN Raise("ValueError")
         ELSE IF f.col # "event" THEN Raise("ValueError")
         ELSE LET df == AddOffset(read_csv(f), offset) IN
                /\ offset' = Add(SeriesMax(df), 1)
                /\ dfs' = Append(dfs, df)
                /\ i' = i + 1
                /\ UNCHANGED <<variant, files, pc, result, err, log, exitCode>>

aa_concat_return ==
    /\ variant = "aa_concat"
    /\ aggFrame
    /\ pc = "loop"
    /\ IF files = <<>> THEN Raise("ValueError")
       ELSE /\ i > Len(files)
            /\ result' = Concat(dfs)
            /\ pc' = "done"
            /\ UNCHANGED <<variant, files, i, offset, dfs, err, log, exitCode>>

\* load_csv_with_unique_events adding the offset a second time:
\* new_offset = offset + int(max_evt) + 1 with max_evt taken after the shift.
load_csv_with_unique_events_double_offset(f, key_column, off) ==
    IF f.kind # "table"
    THEN [df |-> <<>>, offset |-> off, msg |-> "Error reading"]
    ELSE IF read_csv(f) = <<>>
    THEN [df |-> <<>>, offset |-> off, msg |-> "none"]
    ELSE IF f.col # key_column /\ ~(f.col = "event" /\ key_column = "evt")
    THEN [df |-> <<>>, offset |-> off, msg |-> "Warning: Key column not found"]
    ELSE LET df == AddOffset(read_csv(f), off)
             max_evt == SeriesMax(df)
         IN  [df |-> df,
              offset |-> IF max_evt # NaN THEN off + max_evt + 1 ELSE off,
              msg |-> "none"]

\* load_csv_with_unique_events without the test for the key column: the
\* KeyError of df[key_column] lands in the generic except clause.
load_csv_with_unique_events_no_key_check(f, key_column, off) ==
    IF f.kind # "table"
    THEN [df |-> <<>>, offset |-> off, msg |-> "Error reading"]
    ELSE IF read_csv(f) = <<>>
    THEN [df |-> <<>>, offset |-> off, msg |-> "none"]
    ELSE IF f.col # key_column
    THEN [df |-> <<>>, offset |-> off, msg |-> "Error reading"]
    ELSE LET df == AddOffset(read_csv(f), off)
             max_evt == SeriesMax(df)
         IN  [df |-> df,
              offset |-> IF max_evt # NaN THEN max_evt + 1 ELSE off,
              msg |-> "none"]

(***************************************************************************)
(* load_csv_with_unique_events, reco_dis_all.py:139-166 (the same body in  *)
(* csv_b2root.py:148-186): the frame to append, the offset for the next    *)
(* file and the line printed, if any.  An empty frame is <<>>.             *)
(***************************************************************************)
load_csv_with_unique_events(f, key_column, off) ==
    IF f.kind # "table"
    THEN [df |-> <<>>, offset |-> off, msg |-> "Error reading"]
    ELSE IF read_csv(f) = <<>>
    THEN [df |-> <<>>, offset |-> off, msg |-> "none"]
    ELSE IF f.col # key_column /\ ~(f.col = "event" /\ key_column = "evt")
    THEN [df |-> <<>>, offset |-> off, msg |-> "Warning: Key column not found"]
    ELSE LET df == AddOffset(read_csv(f), off)
             max_evt == SeriesMax(df)
         IN  [df |-> df,
              offset |-> IF max_evt # NaN THEN max_evt + 1 ELSE off,
              msg |-> "none"]

(***************************************************************************)
(* load_multiple_csvs, reco_dis_all.py:169-185.                            *)
(***************************************************************************)
\* load_multiple_csvs over a load_csv_with_unique_events that has no
\* try/except: a read error leaves the loop.
load_multiple_step_no_except ==
    /\ variant = "load_multiple"
    /\ aggFrame
    /\ pc = "loop"
    /\ i <= Len(files)
    /\ LET filepath == sorted(files)[i]
           r == load_csv_with_unique_events(filepath, "evt", offset)
       IN  IF filepath.kind # "table" THEN Raise(ReadError(filepath))
           ELSE /\ offset' = r.offset
                /\ dfs' = IF r.df # <<>> THEN Append(dfs, r.df) ELSE dfs
                /\ log' = IF r.msg # "none"
                          THEN Append(log, [msg |-> r.msg,
                                            file |-> filepath.name])
                          ELSE log
                /\ i' = i + 1
                /\ UNCHANGED <<variant, files, pc, result, err, exitCode>>

load_multiple_step ==
    /\ variant = "load_multiple"
    /\ aggFrame
    /\ pc = "loop"
    /\ i <= Len(files)
    /\ LET filepath == sorted(files)[i]
           r == load_csv_with_unique_events(filepath, "evt", offset)
       IN  /\ offset' = r.offset
           /\ dfs' = IF r.df # <<>> THEN Append(dfs, r.df) ELSE dfs
           /\ log' = IF r.msg # "none"
                     THEN Append(log, [msg |-> r.msg, file |-> filepath.name])
                     ELSE log
           /\ i' = i + 1
           /\ UNCHANGED <<variant, files, pc, result, err, exitCode>>

load_multiple_return ==
    /\ variant = "load_multiple"
    /\ aggFrame
    /\ pc = "loop"
    /\ i > Len(files)
    /\ result' = IF dfs = <<>> THEN <<>> ELSE Concat(dfs)
    /\ pc' = "done"
    /\ UNCHANGED <<variant, files, i, offset, dfs, err, log, exitCode>>

(***************************************************************************)
(* run_analysis, reco_dis_all.py:277-337, as called by main (line 390):    *)
(* what the script does with the table load_multiple_csvs returned.        *)
(***************************************************************************)
run_analysis ==
    /\ variant = "load_multiple"
    /\ aggFrame
    /\ pc = "done"
    /\ log' = IF result = <<>>
              THEN Append(log, [msg |-> "Error: No data loaded.", file |-> 0])
              ELSE log
    /\ pc' = "exited"
    /\ exitCode' = 0
    /\ UNCHANGED <<variant, files, i, offset, dfs, result, err>>

(***************************************************************************)
(* extract_and_combine_csvs, compare_reco_mc_differences3.py:23-46.  Every *)
(* file is a zip archive; only pandas' EmptyDataError is caught.           *)
(***************************************************************************)
extract_and_combine_step ==
    /\ variant = "extract_combine"
    /\ aggFrame
    /\ pc = "loop"
    /\ i <= Len(files)
    /\ LET file == sorted(files)[i] IN
         IF file.kind \in {"missing", "corrupt"} THEN Raise(ReadError(file))
         ELSE /\ IF file.kind = "emptycsv"
                 THEN /\ log' = Append(log, [msg |-> "[ERROR] Empty CSV",
                                             file |-> file.name])
                      /\ dfs' = dfs
                 ELSE IF read_csv(file) = <<>>
                 THEN /\ log' = Append(log, [msg |-> "[WARN] Skipping empty file",
                                             file |-> file.name])
                      /\ dfs' = dfs
                 ELSE /\ log' = log
                      /\ dfs' = Append(dfs, read_csv(file))
              /\ i' = i + 1
              /\ UNCHANGED <<variant, files, offset, pc, result, err, exitCode>>

extract_and_combine_return ==
    /\ variant = "extract_combine"
    /\ aggFrame
    /\ pc = "loop"
    /\ i > Len(files)
    /\ result' = Concat(dfs)
    /\ pc' = "done"
    /\ UNCHANGED <<variant, files, i, offset, dfs, err, log, exitCode>>

Next ==
    \/ concat_step
    \/ concat_return
    \/ aa_concat_step
    \/ aa_concat_return
    \/ load_multiple_step
    \/ load_multiple_return
    \/ run_analysis
    \/ extract_and_combine_step
    \/ extract_and_combine_return

Spec == Init /\ [][Next]_vars

(***************************************************************************)
(* Vocabulary of the properties.                                           *)
(***************************************************************************)
\* The functions that renumber event IDs.
Aggregators == {"concat", "aa_concat", "load_multiple"}

\* The files by ascending name (the names of n files are 1..n).
ByName ==
    [k \in 1..Len(files) |->
        files[CHOOSE j \in 1..Len(files) : files[j].name = k]]

\* The order in which the running function is to visit the files:
\* load_multiple_csvs and extract_and_combine_csvs sort the paths, the
\* concat_csvs_with_unique_events copies take the list as passed.
ProcessingOrder ==
    IF variant \in {"load_multiple", "extract_combine"}
    THEN ByName ELSE files

\* The file is a readable table holding the ID column function v asks for
\* (or, for load_multiple_csvs, its alias 'event').
HasKey(v, f) ==
    /\ f.kind = "table"
    /\ \/ v = "concat" /\ f.col = "evt"
       \/ v = "aa_concat" /\ f.col = "event"
       \/ v = "load_multiple" /\ f.col \in {"evt", "event"}

\* Position of the file called name in the processing order.
Pos(name) ==
    CHOOSE k \in 1..Len(files) : ProcessingOrder[k].name = name

\* a < b on event IDs; no comparison with NaN is true.
Less(a, b) == a # NaN /\ b # NaN /\ a < b

\* The ID column of a table.
Evts(df) == [k \in 1..Len(df) |-> df[k].evt]

\* Largest value of a non-empty ID column as stored in the file.
MaxOf(ids) ==
    CHOOSE m \in {ids[k] : k \in 1..Len(ids)} :
        \A k \in 1..Len(ids) : ids[k] <= m

\* offset_1 = 0, offset_(k+1) = offset_k + max(original IDs of file k) + 1
RECURSIVE ClaimOffset(_, _)
ClaimOffset(order, k) ==
    IF k = 1 THEN 0
    ELSE ClaimOffset(order, k - 1) + MaxOf(order[k - 1].ids) + 1

\* The first k files visited are tables with the ID column and >= 1 row.
AllGood(k) ==
    \A j \in 1..k :
        HasKey(variant, ProcessingOrder[j]) /\ ProcessingOrder[j].ids # <<>>

(***************************************************************************)
(* C1: in the merged table every event ID of a file processed earlier is   *)
(* strictly smaller than every event ID of a file processed later.         *)
(***************************************************************************)
C1_EarlierFileHasSmallerIds ==
    (pc = "done" /\ variant \in {"aa_concat", "load_multiple"}) =>
        \A a, b \in 1..Len(result) :
            Pos(result[a].src) < Pos(result[b].src)
                => Less(result[a].evt, result[b].evt)

(***************************************************************************)
(* C2 as stated: no two rows of the merged table share an event ID.        *)
(***************************************************************************)
C2_NoTwoRowsShareId ==
    (pc = "done" /\ variant = "concat") =>
        \A a, b \in 1..Len(result) :
            a # b => result[a].evt # result[b].evt

(***************************************************************************)
(* C2 amended: two rows of the merged table carry the same numeric event   *)
(* ID exactly when they come from the same file and carry the same ID in   *)
(* that file; rows of different files never share a numeric ID.            *)
(***************************************************************************)
C2_SharedIdOnlyWithinFile ==
    (pc = "done" /\ variant \in Aggregators) =>
        \A a, b \in 1..Len(result) :
            (result[a].evt # NaN /\ result[b].evt # NaN) =>
                ( result[a].evt = result[b].evt
                    <=> ( result[a].src = result[b].src
                          /\ result[a].orig = result[b].orig ) )

C2_Witness ==
    /\ pc = "done"
    /\ variant = "concat"
    /\ \E a, b \in 1..Len(result) :
         a # b /\ result[a].evt = result[b].evt /\ result[a].evt # NaN
    /\ \E a, b \in 1..Len(result) : result[a].src # result[b].src

(***************************************************************************)
(* C3 as stated: as long as every file visited holds the ID column and at  *)
(* least one row, the offset of file k is the sum over the earlier files   *)
(* of (max original ID + 1), every output ID is the original ID plus the   *)
(* offset of its file, and [0,1,2], [0,1], [0,1,1] give [0,1,2], [3,4],    *)
(* [5,5].                                                                  *)
(***************************************************************************)
C3_Example == << <<0, 1, 2>>, <<0, 1>>, <<0, 1, 1>> >>

C3_IsExample ==
    /\ variant \in Aggregators
    /\ pc = "done"
    /\ AllGood(Len(files))
    /\ [k \in 1..Len(files) |-> ProcessingOrder[k].ids] = C3_Example

C3_Recurrence ==
    (variant \in Aggregators /\ AllGood(i - 1)) =>
        /\ offset = ClaimOffset(ProcessingOrder, i)
        /\ Len(dfs) = i - 1
        /\ \A k \in 1..(i - 1) :
              /\ Len(dfs[k]) = Len(ProcessingOrder[k].ids)
              /\ \A r \in 1..Len(dfs[k]) :
                    /\ dfs[k][r].orig = ProcessingOrder[k].ids[r]
                    /\ dfs[k][r].evt = ProcessingOrder[k].ids[r]
                                       + ClaimOffset(ProcessingOrder, k)

C3_AsStated ==
    /\ C3_Recurrence
    /\ C3_IsExample => Evts(result) = <<0, 1, 2>> \o <<3, 4>> \o <<5, 5>>

(***************************************************************************)
(* C3 amended: the same recurrence; IDs repeated inside one file stay      *)
(* repeated, and [0,1,2], [0,1], [0,1,1] give [0,1,2], [3,4], [5,6,6].     *)
(***************************************************************************)
C3_OffsetRecurrence ==
    /\ C3_Recurrence
    /\ C3_IsExample => Evts(result) = <<0, 1, 2>> \o <<3, 4>> \o <<5, 6, 6>>

C3_Witness ==
    /\ variant = "concat"
    /\ pc = "done"
    /\ [k \in 1..Len(files) |-> files[k].ids] = C3_Example
    /\ Len(result) = 8

(***************************************************************************)
(* C4: aggregating a single file returns its rows with their event IDs     *)
(* unchanged and in the same order.                                        *)
(***************************************************************************)
C4_SingleFileUnchanged ==
    (variant \in Aggregators /\ Len(files) = 1 /\ pc = "done") =>
        /\ \A r \in 1..Len(result) : result[r].evt = result[r].orig
        /\ HasKey(variant, files[1]) => Evts(result) = files[1].ids

C4_Witness ==
    /\ variant = "load_multiple"
    /\ Len(files) = 1
    /\ pc = "done"
    /\ Evts(result) = <<1, 0>>

(***************************************************************************)
(* C5: an empty file (header only, zero rows) adds no rows and leaves the  *)
(* running offset as it was, so the other files get the IDs they would get *)
(* had the empty file not been in the list.                                *)
(***************************************************************************)
\* The IDs the claim's recurrence gives to the rows of a list of files.
RECURSIVE ClaimEvts(_, _)
ClaimEvts(order, k) ==
    IF k = 0 THEN <<>>
    ELSE ClaimEvts(order, k - 1)
         \o [r \in 1..Len(order[k].ids) |->
                order[k].ids[r] + ClaimOffset(order, k)]

IsNonEmpty(f) == f.ids # <<>>

C5_EmptyFileChangesNothing ==
    ( /\ variant \in Aggregators
      /\ pc = "done"
      /\ \A k \in 1..Len(files) : HasKey(variant, files[k]) ) =>
        LET kept == SelectSeq(ProcessingOrder, IsNonEmpty)
        IN  /\ Evts(result) = ClaimEvts(kept, Len(kept))
            /\ offset = ClaimOffset(kept, Len(kept) + 1)

(***************************************************************************)
(* C6 as stated: a file without the ID column (and without its alias) is   *)
(* skipped with a warning and the aggregation does not abort.              *)
(***************************************************************************)
LacksKey(f) == f.kind = "table" /\ ~HasKey(variant, f)

Logged(m, f) == \E k \in 1..Len(log) : log[k] = [msg |-> m, file |-> f.name]

Unreadable(f) == f.kind # "table"

EmptyFile(f) == (f.kind = "table" /\ f.ids = <<>>) \/ f.kind = "emptycsv"

C8_EmptyInputGivesNoRows ==
    ( /\ variant \in Aggregators
      /\ \A k \in 1..Len(files) : EmptyFile(files[k]) ) =>
        /\ \A d \in 1..Len(dfs) : dfs[d] = <<>>
        /\ result = <<>>
        /\ pc = "raised" => err # "none"

\* aa_helpers' copy has returned from a list of two header-only files, the
\* offset having become NaN on the way.
C8_Witness ==
    /\ variant = "aa_concat"
    /\ Len(files) = 2
    /\ \A k \in 1..Len(files) : EmptyFile(files[k])
    /\ pc = "done"
    /\ offset = NaN
    /\ result = <<>>

(***************************************************************************)
(* C9: when no file has contributed a row, the caller is told of an error  *)
(* (an exception or a non-zero exit code).                                 *)
(***************************************************************************)
C9_EmptyResultIsAnError ==
    (variant = "load_multiple" /\ pc = "exited" /\ result = <<>>) =>
        (err # "none" \/ exitCode # 0)

(***************************************************************************)
(* C10 as stated: the merged table lists the files in the order in which   *)
(* the caller passed them, and the rows of a file in the file's order.     *)
(***************************************************************************)
CallerPos(name) == CHOOSE k \in 1..Len(files) : files[k].name = name

MaxPairs == 2

\* What one file of a pair may hold: unreadable, header only, and tables
\* whose largest ID differs (a reco_dis file has a row only for the events
\* that were reconstructed).
PairFileContents ==
    { [kind |-> "corrupt", col |-> "x", ids |-> <<>>] }
    \cup { [kind |-> "table", col |-> "evt", ids |-> s] :
              s \in { <<>>, <<0>>, <<0, 1>>, <<1, 2>> } }

\* pd.merge(mc_df, reco_df, on='evt', how='inner'): one joined row for every
\* truth row and reconstructed row that hold the same evt.
merge(left, right) ==
    { [mc |-> left[a], reco |-> right[b]] :
        <<a, b>> \in { q \in (1..Len(left)) \X (1..Len(right)) :
                          left[q[1]].evt = right[q[2]].evt } }

\* analyze_beam_energy is called with a list of pairs; the two files of the
\* pair named p are both tagged p, so that the rows tell their pair.
PairInit ==
    /\ \E n \in 0..MaxPairs :
         \E m \in [1..n -> PairFileContents] :
           \E r \in [1..n -> PairFileContents] :
             \E p \in CallerOrders(n) :
               file_pairs =
                 [k \in 1..n |->
                    [name |-> p[k],
                     mc |-> [name |-> p[k], kind |-> m[k].kind,
                             col |-> m[k].col, ids |-> m[k].ids],
                     reco |-> [name |-> p[k], kind |-> r[k].kind,
                               col |-> r[k].col, ids |-> r[k].ids]]]
    /\ pair_i = 1
    /\ mc_offset = 0
    /\ reco_offset = 0
    /\ mc_dfs = <<>>
    /\ reco_dfs = <<>>
    /\ pair_pc = "loop"
    /\ mc_df = <<>>
    /\ reco_df = <<>>
    /\ merged_df = {}
    /\ pairAlone

\* One iteration of "for mc_file, reco_file in sorted(file_pairs)".
load_file_pairs_step ==
    /\ pair_pc = "loop"
    /\ pairFrame
    /\ pair_i <= Len(file_pairs)
    /\ LET p == sorted(file_pairs)[pair_i]
           m == load_csv_with_unique_events(p.mc, "evt", mc_offset)
           r == load_csv_with_unique_events(p.reco, "evt", reco_offset)
       IN  /\ mc_offset' = m.offset
           /\ reco_offset' = r.offset
           /\ mc_dfs' = IF m.df # <<>> THEN Append(mc_dfs, m.df) ELSE mc_dfs
           /\ reco_dfs' =
                IF r.df # <<>> THEN Append(reco_dfs, r.df) ELSE reco_dfs
    /\ pair_i' = pair_i + 1
    /\ UNCHANGED <<file_pairs, pair_pc, mc_df, reco_df, merged_df>>

\* The two pd.concat after the loop; no frame appended gives an empty frame.
load_file_pairs_return ==
    /\ pair_pc = "loop"
    /\ pairFrame
    /\ pair_i > Len(file_pairs)
    /\ mc_df' = Concat(mc_dfs)
    /\ reco_df' = Concat(reco_dfs)
    /\ pair_pc' = "loaded"
    /\ UNCHANGED <<file_pairs, pair_i, mc_offset, reco_offset, mc_dfs,
                   reco_dfs, merged_df>>

\* analyze_beam_energy after load_file_pairs: skip when a table is empty,
\* join, skip when the join is empty.
analyze_beam_energy ==
    /\ pair_pc = "loaded"
    /\ pairFrame
    /\ IF mc_df = <<>> \/ reco_df = <<>>
       THEN /\ merged_df' = {}
            /\ pair_pc' = "skipped"
       ELSE /\ merged_df' = merge(mc_df, reco_df)
            /\ pair_pc' =
                 IF merge(mc_df, reco_df) = {} THEN "skipped" ELSE "merged"
    /\ UNCHANGED <<file_pairs, pair_i, mc_offset, reco_offset, mc_dfs,
                   reco_dfs, mc_df, reco_df>>

PairNext ==
    \/ load_file_pairs_step
    \/ load_file_pairs_return
    \/ analyze_beam_energy

SpecPairs == PairInit /\ [][PairNext]_vars

(***************************************************************************)
(* C11: the truth and the reconstructed table are renumbered in lockstep:  *)
(* before every file pair the offset to add to the truth file equals the   *)
(* offset to add to the reconstructed file, and every row of the join      *)
(* combines a truth row and a reconstructed row of the same file pair      *)
(* that hold the same original event ID.                                   *)
(***************************************************************************)
C11_JoinWithinPair ==
    \A j \in merged_df : j.mc.src = j.reco.src /\ j.mc.orig = j.reco.orig

C11_OffsetsInLockstep ==
    /\ pair_pc = "loop" => mc_offset = reco_offset
    /\ C11_JoinWithinPair

(***************************************************************************)
(* The Lambda studies, studies_lambda.py and studies_kaon_sf.py: per ROOT  *)
(* file the event-level truth kinematics are broadcast over the ragged     *)
(* collection of reconstructed Lambda candidates and flattened to one row  *)
(* per candidate.                                                          *)
(*                                                                         *)
(* Numbers are integers in units that make the kinematics exact: the       *)
(* proton beam runs along z (theta_proton_rad = 0) with mp_gev = 0, the    *)
(* candidates have px = py = 0.  A quotient is kept as a fraction          *)
(* [num, den] with den >= 0; den = 0 is numpy's nan.                       *)
(***************************************************************************)
\* Longest list of ROOT files of one beam configuration (nfiles).
MaxTrees == 2

\* parse_proton_energy(beam), physics.py:6-10.
Ep == 5

\* proton_kinematics_for_beam, physics.py:37-53.
ppE == Ep
ppz == Ep
pplus_p == Ep + ppz

\* The cut on -t, when one is asked for.
TMaxCut == 6

\* Bin edges np.linspace(lo, hi, bins + 1), as [lo, width, bins].
xB_edges == [lo |-> 1, w |-> 1, bins |-> 2]
Q2_edges == [lo |-> 0, w |-> 8, bins |-> 1]
xK_edges == [lo |-> 0, w |-> 3, bins |-> 2]

nan == [num |-> 0, den |-> 0]

\* np.isfinite of a quotient.
isfinite(q) == q.den # 0

\* One entry of InclusiveKinematicsTruth of event k: x is k (every event of
\* a file has a value of its own), Q2 is given.
Truth(k, q) == <<[x |-> k, Q2 |-> q]>>

\* A reconstructed Lambda of event k: energy and momentum along the beam.
\* evt is not stored in the file; it records the event the candidate was
\* written in.
Lam(k, e, p) == [evt |-> k, E |-> e, pz |-> p]

\* An event as stored in the tree: the (0 or 1) entries of
\* InclusiveKinematicsTruth and the entries of ReconstructedFarForwardLambdas.
Event(t, c) == [truth |-> t, cands |-> c]

\* The ROOT files a study may find.  Candidates: (3,2) has xL = 1/2 and
\* -t = 5, (2,1) has xL = 3/10 and -t = 7, (5,5) has xL = 1, for which
\* xk_from_xb_xl gives nan.
TreePool ==
    { [kind |-> "missing", events |-> <<>>],
      [kind |-> "corrupt", events |-> <<>>],
      [kind |-> "ok", events |-> <<>>],
      [kind |-> "ok", events |-> <<Event(Truth(1, 4), <<>>)>>],
      [kind |-> "ok", events |->
          <<Event(Truth(1, 4), <<>>),
            Event(Truth(2, 4), <<Lam(2, 3, 2), Lam(2, 2, 1)>>),
            Event(Truth(3, 4), <<Lam(3, 3, 2)>>)>>],
      [kind |-> "ok", events |->
          <<Event(Truth(1, 4), <<Lam(1, 5, 5)>>),
            Event(Truth(2, 0), <<Lam(2, 3, 2), Lam(2, 5, 5)>>)>>],
      [kind |-> "ok", events |->
          <<Event(Truth(1, 4), <<Lam(1, 5, 5)>>)>>],
      [kind |-> "ok", events |->
          <<Event(<<>>, <<Lam(1, 3, 2)>>),
            Event(Truth(2, 4), <<>>),
            Event(Truth(3, 4), <<Lam(3, 3, 2)>>)>>] }

\* ak.flatten dropping the last list.
flatten_drop_last(a) ==
    IF a = <<>> THEN <<>> ELSE Concat(SubSeq(a, 1, Len(a) - 1))

\* ak.flatten: the lists of a ragged array one after the other.
flatten(a) == Concat(a)

\* ak.num(a, axis=1): the length of every list.
num(a) == [k \in 1..Len(a) |-> Len(a[k])]

\* a[:n]
Take(a, n) == [k \in 1..(IF n < Len(a) THEN n ELSE Len(a)) |-> a[k]]

\* ak.broadcast_arrays(ak.Array(scalars), ragged)[0]: the scalar of entry k
\* repeated once for every element of the k-th list.
broadcast_arrays(scalars, ragged) ==
    [k \in 1..Len(ragged) |-> [j \in 1..Len(ragged[k]) |-> scalars[k]]]

\* xk_from_xb_xl, physics.py:65-70, with xl = (E + pz) / pplus_p:
\* denom = 1 - xl = (pplus_p - E - pz) / pplus_p.
xk_from_xb_xl(xb, c) ==
    IF pplus_p - c.E - c.pz > 0
    THEN [num |-> xb * pplus_p, den |-> pplus_p - c.E - c.pz]
    ELSE nan

\* tneg = -(dE*dE - (dpx*dpx + dpy*dpy + dpz*dpz))
tneg_of(c) ==
    [num |-> (ppz - c.pz) * (ppz - c.pz) - (ppE - c.E) * (ppE - c.E),
     den |-> 1]

\* q < n for a quotient q and a number n; false for nan, as in numpy.
LessThan(q, n) == isfinite(q) /\ q.num < n * q.den

\* np.searchsorted(edges, v, side="right") - 1 for a finite quotient v:
\* -1 below the first edge, edges.bins from the last edge on.
searchsorted(edges, v) ==
    IF v.num < edges.lo * v.den THEN -1
    ELSE IF v.num >= (edges.lo + edges.w * edges.bins) * v.den
    THEN edges.bins
    ELSE (v.num - edges.lo * v.den) \div (edges.w * v.den)

\* The bin np.histogram puts v in: as searchsorted, but the last edge
\* belongs to the last bin; -1 for a value outside the range.
histogram_bin(edges, v) ==
    IF v.num = (edges.lo + edges.w * edges.bins) * v.den
    THEN edges.bins - 1
    ELSE IF searchsorted(edges, v) = edges.bins THEN -1
    ELSE searchsorted(edges, v)

\* A number as a quotient.
Q(n) == [num |-> n, den |-> 1]

\* The bins of a histogram over two and three axes.
Bins2 == (0..(xB_edges.bins - 1)) \X (0..(Q2_edges.bins - 1))
Bins3 ==
    (0..(xK_edges.bins - 1)) \X (0..(xB_edges.bins - 1))
        \X (0..(Q2_edges.bins - 1))

\* np.histogram2d(x, y, bins=(xB_edges, Q2_edges))[0] of two arrays of
\* numbers of the same length.
histogram2d(x, y) ==
    [b \in Bins2 |->
        Cardinality({ k \in 1..Len(x) :
            /\ histogram_bin(xB_edges, Q(x[k])) = b[1]
            /\ histogram_bin(Q2_edges, Q(y[k])) = b[2] })]

\* The value of every bin of an empty histogram (np.zeros).
zeros(bins) == [b \in bins |-> 0]

\* The flat candidate table of one file: one row per element of the ragged
\* array lam, with the broadcast event scalars and the derived quantities.
FlatTable(xB_evt, Q2_evt, lam) ==
    LET xB_c == flatten(broadcast_arrays(xB_evt, lam))
        Q2_c == flatten(broadcast_arrays(Q2_evt, lam))
        c == flatten(lam)
    IN  [r \in 1..Len(c) |->
            [xB_c |-> xB_c[r], Q2_c |-> Q2_c[r], cand |-> c[r],
             xK |-> xk_from_xb_xl(xB_c[r], c[r]),
             tneg |-> tneg_of(c[r])]]

\* The branches InclusiveKinematicsTruth.x and .Q2 of a tree, flattened.
xB_of(t) ==
    flatten([k \in 1..Len(t.events) |->
                [j \in 1..Len(t.events[k].truth) |-> t.events[k].truth[j].x]])
Q2_of(t) ==
    flatten([k \in 1..Len(t.events) |->
                [j \in 1..Len(t.events[k].truth) |-> t.events[k].truth[j].Q2]])

\* The branches ReconstructedFarForwardLambdas.* of a tree.
lam_of(t) == [k \in 1..Len(t.events) |-> t.events[k].cands]

Min(a, b) == IF a < b THEN a ELSE b

\* m = np.isfinite(xK) & np.isfinite(Q2_c) & np.isfinite(tneg), and
\* m &= (tneg < tmax) when a cut is given; Q2_c is a number of the file.
lambda_mask(r) ==
    /\ isfinite(r.xK)
    /\ isfinite(r.tneg)
    /\ tmax # <<>> => LessThan(r.tneg, tmax[1])

\* ok = np.isfinite(xB_c) & np.isfinite(Q2_c) & np.isfinite(xK_c)
\*      & (Q2_c > 0), and ok &= np.isfinite(tneg) & (tneg < tmax).
kaon_mask(r) ==
    /\ isfinite(r.xK)
    /\ r.Q2_c > 0
    /\ tmax # <<>> => isfinite(r.tneg) /\ LessThan(r.tneg, tmax[1])

\* A call of a study on the files found for a beam configuration.
LamInit ==
    /\ study \in {"lambda", "kaon_sf"}
    /\ tmax \in {<<>>, <<TMaxCut>>}
    /\ \E n \in 0..MaxTrees : trees \in [1..n -> TreePool]
    /\ tree_i = 1
    /\ left_at = "start"
    /\ lamE_j = <<>>
    /\ flat = <<>>
    /\ xB_evt_all = <<>>
    /\ nlam_evt_all = <<>>
    /\ xK_cand_all = <<>>
    /\ Ngen_evt = zeros(Bins2)
    /\ Nreco_lam = zeros(Bins2)
    /\ M = zeros(Bins3)
    /\ xK_cand = <<>>
    /\ nlam_evt = <<>>
    /\ eps = <<>>
    /\ P = <<>>
    /\ lam_pc = "loop"
    /\ lam_log = <<>>
    /\ lamAlone

\* One iteration of the loop over iter_reco_files in
\* plot_nlambda_vs_kinematics_all, studies_lambda.py:248-307.  left_at is
\* the place where the iteration ends; a variable set in an earlier
\* iteration keeps its value when this one ends early.
nlambda_file_step ==
    /\ study = "lambda"
    /\ lam_pc = "loop"
    /\ lamFrame
    /\ tree_i <= Len(trees)
    /\ tree_i' = tree_i + 1
    /\ UNCHANGED <<study, tmax, trees, Ngen_evt, Nreco_lam, M, xK_cand,
                   nlam_evt, eps, P, lam_pc>>
    /\ LET t == trees[tree_i]
           nmin == Min(Len(xB_of(t)), Len(lam_of(t)))
           rows == FlatTable(Take(xB_of(t), nmin), Take(Q2_of(t), nmin),
                             Take(lam_of(t), nmin))
       IN  CASE t.kind = "missing" ->
                  /\ left_at' = "not_found"
                  /\ UNCHANGED <<lamE_j, flat, xB_evt_all, nlam_evt_all,
                                 xK_cand_all, lam_log>>
             [] t.kind = "corrupt" ->
                  /\ left_at' = "except"
                  /\ lam_log' = Append(lam_log, "Warning")
                  /\ UNCHANGED <<lamE_j, flat, xB_evt_all, nlam_evt_all,
                                 xK_cand_all>>
             [] t.kind = "ok" /\ nmin = 0 ->
                  /\ left_at' = "no_events"
                  /\ lamE_j' = lam_of(t)
                  /\ UNCHANGED <<flat, xB_evt_all, nlam_evt_all,
                                 xK_cand_all, lam_log>>
             [] OTHER ->
                  /\ left_at' = "end"
                  /\ lamE_j' = Take(lam_of(t), nmin)
                  /\ xB_evt_all' = Append(xB_evt_all, Take(xB_of(t), nmin))
                  /\ nlam_evt_all' =
                       Append(nlam_evt_all, Take(num(lam_of(t)), nmin))
                  /\ flat' = rows
                  /\ xK_cand_all' =
                       IF \E r \in 1..Len(rows) : lambda_mask(rows[r])
                       THEN Append(xK_cand_all, SelectSeq(rows, lambda_mask))
                       ELSE xK_cand_all
                  /\ UNCHANGED lam_log

\* After the loop of plot_nlambda_vs_kinematics_all, studies_lambda.py:
\* 309-321: nothing to plot without events, else the arrays of the files
\* are concatenated.
nlambda_concatenate ==
    /\ study = "lambda"
    /\ lam_pc = "loop"
    /\ lamFrame
    /\ tree_i > Len(trees)
    /\ IF xB_evt_all = <<>>
       THEN /\ lam_log' = Append(lam_log, "No events found / nothing to plot.")
            /\ UNCHANGED <<nlam_evt, xK_cand>>
       ELSE /\ nlam_evt' = Concat(nlam_evt_all)
            /\ xK_cand' = Concat(xK_cand_all)
            /\ UNCHANGED lam_log
    /\ lam_pc' = "done"
    /\ UNCHANGED <<study, tmax, trees, tree_i, left_at, lamE_j, flat,
                   xB_evt_all, nlam_evt_all, xK_cand_all, Ngen_evt,
                   Nreco_lam, M, eps, P>>

\* xB_sel = xB_c[ok] and Q2_sel = Q2_c[ok]: the two columns of the selected
\* rows.
xB_sel(rows) == [k \in 1..Len(rows) |-> rows[k].xB_c]
Q2_sel(rows) == [k \in 1..Len(rows) |-> rows[k].Q2_c]

\* a + b, bin by bin.
AddHist(a, b) == [k \in DOMAIN a |-> a[k] + b[k]]

\* np.add.at(M, (ixK[good], ixB[good], iQ[good]), 1.0): one count for every
\* selected row whose three indices are inside the binning.
add_at(m, rows) ==
    [b \in Bins3 |->
        m[b] + Cardinality({ k \in 1..Len(rows) :
                   /\ searchsorted(xK_edges, rows[k].xK) = b[1]
                   /\ searchsorted(xB_edges, Q(rows[k].xB_c)) = b[2]
                   /\ searchsorted(Q2_edges, Q(rows[k].Q2_c)) = b[3] })]

\* One iteration of the loop over the files in plot_relerr_kaon_sf_xK_Q2,
\* studies_kaon_sf.py:170-237.
kaon_sf_file_step ==
    /\ study = "kaon_sf"
    /\ lam_pc = "loop"
    /\ lamFrame
    /\ tree_i <= Len(trees)
    /\ tree_i' = tree_i + 1
    /\ UNCHANGED <<study, tmax, trees, xB_evt_all, nlam_evt_all,
                   xK_cand_all, xK_cand, nlam_evt, eps, P, lam_pc>>
    /\ LET t == trees[tree_i]
           n_evt == Len(xB_of(t))
           xB_evt == Take(xB_of(t), n_evt)
           Q2_evt == Take(Q2_of(t), n_evt)
           rows == FlatTable(xB_evt, Q2_evt, Take(lam_of(t), n_evt))
           sel == SelectSeq(rows, kaon_mask)
           gen == AddHist(Ngen_evt,
                          histogram2d(xB_evt, Q2_evt))
       IN  CASE t.kind = "missing" ->
                  /\ left_at' = "not_found"
                  /\ UNCHANGED <<lamE_j, flat, Ngen_evt, Nreco_lam, M,
                                 lam_log>>
             [] t.kind = "corrupt" ->
                  /\ left_at' = "except"
                  /\ lam_log' = Append(lam_log, "Warning")
                  /\ UNCHANGED <<lamE_j, flat, Ngen_evt, Nreco_lam, M>>
             [] t.kind = "ok" /\ n_evt = 0 ->
                  /\ left_at' = "no_events"
                  /\ UNCHANGED <<lamE_j, flat, Ngen_evt, Nreco_lam, M,
                                 lam_log>>
             [] t.kind = "ok" /\ n_evt > 0 /\ rows = <<>> ->
                  /\ left_at' = "no_candidates"
                  /\ Ngen_evt' = gen
                  /\ lamE_j' = Take(lam_of(t), n_evt)
                  /\ flat' = rows
                  /\ UNCHANGED <<Nreco_lam, M, lam_log>>
             [] t.kind = "ok" /\ n_evt > 0 /\ rows # <<>> /\ sel = <<>> ->
                  /\ left_at' = "none_selected"
                  /\ Ngen_evt' = gen
                  /\ lamE_j' = Take(lam_of(t), n_evt)
                  /\ flat' = rows
                  /\ UNCHANGED <<Nreco_lam, M, lam_log>>
             [] OTHER ->
                  /\ left_at' = "end"
                  /\ Ngen_evt' = gen
                  /\ lamE_j' = Take(lam_of(t), n_evt)
                  /\ flat' = rows
                  /\ Nreco_lam' =
                       AddHist(Nreco_lam,
                               histogram2d(xB_sel(sel), Q2_sel(sel)))
                  /\ M' = add_at(M, sel)
                  /\ UNCHANGED lam_log

\* np.clip with the upper limit left out.
clip_below_only(q) ==
    IF ~isfinite(q) THEN q ELSE IF q.num < 0 THEN Q(0) ELSE q

\* np.clip(q, 0.0, 1.0); nan stays nan.
clip(q) ==
    IF ~isfinite(q) THEN q
    ELSE IF q.num < 0 THEN Q(0)
    ELSE IF q.num > q.den THEN Q(1)
    ELSE q

\* efficiency_vs_energy, studies_lambda.py:145-150: eps is nan, and in the
\* bins with h_truth > 0 it is h_reco / h_truth clipped to [0, 1].
efficiency(h_truth, h_reco) ==
    [b \in DOMAIN h_truth |->
        IF h_truth[b] > 0
        THEN clip([num |-> h_reco[b], den |-> h_truth[b]])
        ELSE nan]

\* err[m] = np.sqrt(eps[m] * (1.0 - eps[m]) / h_truth[m]), kept as its
\* square: eps * (1 - eps) / N = num * (den - num) / (den * den * N).
efficiency_err2(h_truth, e) ==
    [b \in DOMAIN h_truth |->
        IF h_truth[b] > 0
        THEN [num |-> e[b].num * (e[b].den - e[b].num),
              den |-> e[b].den * e[b].den * h_truth[b]]
        ELSE nan]

\* plot_relerr_kaon_sf_xK_Q2, studies_kaon_sf.py:239-242: eps is zero, and
\* in the bins with Ngen_evt > 0 it is Nreco_lam / Ngen_evt; then clipped.
kaon_sf_efficiency(gen, reco) ==
    [b \in DOMAIN gen |->
        clip(IF gen[b] > 0 THEN [num |-> reco[b], den |-> gen[b]] ELSE Q(0))]

\* The sum of f over the finite set S of indices.
RECURSIVE SumOver(_, _)
SumOver(f, S) ==
    IF S = {} THEN 0
    ELSE LET x == CHOOSE y \in S : TRUE
         IN  f[x] + SumOver(f, S \ {x})

\* The total taken over the truth bins (axis=1) in the place of axis=0.
column_sum_axis1(m, ixK, iQ) ==
    SumOver([k \in 0..(xB_edges.bins - 1) |-> m[<<ixK, k, iQ>>]],
            0..(xB_edges.bins - 1))

\* denom = np.sum(M, axis=0): the total of a (truth-bin, Q2-bin) column.
column_sum(m, ixB, iQ) ==
    SumOver([k \in 0..(xK_edges.bins - 1) |-> m[<<k, ixB, iQ>>]],
            0..(xK_edges.bins - 1))

\* studies_kaon_sf.py:251-254: P is zero, and in the columns with
\* denom > 0 it is M / denom.
migration(m) ==
    [b \in DOMAIN m |->
        IF column_sum(m, b[2], b[3]) > 0
        THEN [num |-> m[b], den |-> column_sum(m, b[2], b[3])]
        ELSE Q(0)]

\* After the loop of plot_relerr_kaon_sf_xK_Q2: the efficiency map and the
\* migration matrix of the accumulated histograms.
kaon_sf_finish ==
    /\ study = "kaon_sf"
    /\ lam_pc = "loop"
    /\ lamFrame
    /\ tree_i > Len(trees)
    /\ eps' = kaon_sf_efficiency(Ngen_evt, Nreco_lam)
    /\ P' = migration(M)
    /\ lam_pc' = "done"
    /\ UNCHANGED <<study, tmax, trees, tree_i, left_at, lamE_j, flat,
                   xB_evt_all, nlam_evt_all, xK_cand_all, Ngen_evt,
                   Nreco_lam, M, xK_cand, nlam_evt, lam_log>>

LamNext ==
    \/ nlambda_file_step
    \/ nlambda_concatenate
    \/ kaon_sf_file_step
    \/ kaon_sf_finish

SpecLam == LamInit /\ [][LamNext]_vars

(***************************************************************************)
(* Vocabulary of the properties of the Lambda studies.                     *)
(***************************************************************************)
\* The last iteration got as far as building the flat candidate table.
Flattened == left_at \in {"no_candidates", "none_selected", "end"}

\* The file the last iteration read.
LastTree == trees[tree_i - 1]

\* The rows of the flat table that come from candidates of event k.
RowsOf(k) == { r \in 1..Len(flat) : flat[r].cand.evt = k }

\* The number of candidates over all events of a ragged array.
Total(counts_) == SumOver(counts_, 1..Len(counts_))

C13_RowsCarryTheirEventsScalar ==
    Flattened =>
        \A r \in 1..Len(flat) :
            LET e == LastTree.events[flat[r].cand.evt]
            IN  e.truth # <<>> /\ flat[r].xB_c = e.truth[1].x

\* The example of C13 where every event holds its truth entry: counts
\* [0, 2, 1] give rows 1-2 with the scalar of event 2 and row 3 with the
\* scalar of event 3.
C13_Example ==
    (Flattened /\ num(lamE_j) = <<0, 2, 1>>
        /\ \A k \in 1..3 : LastTree.events[k].truth = Truth(k, 4))
    => [r \in 1..Len(flat) |-> flat[r].xB_c] = <<2, 2, 3>>

(***************************************************************************)
(* C14: candidates whose derived quantity is not finite stay in the flat   *)
(* candidate table up to the binning: without a cut on -t the combined     *)
(* candidate table holds as many rows as the events have candidates.       *)
(***************************************************************************)
C14_NonFiniteStayInTable ==
    (study = "lambda" /\ lam_pc = "done" /\ tmax = <<>>
        /\ xB_evt_all # <<>>)
    => Len(xK_cand) = Total(nlam_evt)

(***************************************************************************)
(* The binned efficiency and the migration matrix as functions of the      *)
(* histograms: efficiency_vs_energy (studies_lambda.py:126-154) and the    *)
(* end of plot_relerr_kaon_sf_xK_Q2 (studies_kaon_sf.py:239-254), applied  *)
(* to histograms drawn from a pool.                                        *)
(***************************************************************************)
\* Number of bins of an efficiency histogram.
EBins == 3

\* Largest entry of a migration histogram.
MaxCount == 2

\* Bin contents of the generated and the selected histogram: a selected
\* count may exceed the generated one (several candidates per event).
CountPool == {0, 3, 5, 10}

\* Expected counts of a (truth-bin, Q2-bin) cell.
ExpectedPool == {0, 4}

\* The sum and the multiple of quotients, nan apart.
qadd(a, b) == [num |-> a.num * b.den + b.num * a.den, den |-> a.den * b.den]
qmul(a, n) == [num |-> a.num * n, den |-> a.den]

\* The sum of the quotients f[x] over the finite set S of indices.
RECURSIVE QSumOver(_, _)
QSumOver(f, S) ==
    IF S = {} THEN Q(0)
    ELSE LET x == CHOOSE y \in S : TRUE
         IN  qadd(f[x], QSumOver(f, S \ {x}))

\* The product with the first truth bin only.
matmul_first_column(p, n) ==
    [c \in (0..(xK_edges.bins - 1)) \X (0..(Q2_edges.bins - 1)) |->
        qmul(p[<<c[1], 0, c[2]>>], n[<<0, c[2]>>])]

\* Nexp_xK_Q2[:, iQ] = P[:, :, iQ] @ Nexp_xB_Q2[:, iQ] for every iQ,
\* studies_kaon_sf.py:256-258.
matmul(p, n) ==
    [c \in (0..(xK_edges.bins - 1)) \X (0..(Q2_edges.bins - 1)) |->
        QSumOver([b \in 0..(xB_edges.bins - 1) |->
                     qmul(p[<<c[1], b, c[2]>>], n[<<b, c[2]>>])],
                 0..(xB_edges.bins - 1))]

EffInit ==
    /\ fn \in {"efficiency_vs_energy", "kaon_sf_efficiency", "migration",
               "projection"}
    /\ IF fn \in {"migration", "projection"}
       THEN /\ counts \in [Bins3 -> 0..MaxCount]
            /\ generated = <<>>
            /\ selected = <<>>
       ELSE /\ counts = <<>>
            /\ generated \in [1..EBins -> CountPool]
            /\ selected \in [1..EBins -> CountPool]
    /\ IF fn = "projection"
       THEN Nexp_xB_Q2 \in [Bins2 -> ExpectedPool]
       ELSE Nexp_xB_Q2 = <<>>
    /\ Nexp_xK_Q2 = <<>>
    /\ eff_eps = <<>>
    /\ eff_err2 = <<>>
    /\ eff_P = <<>>
    /\ eff_pc = "binned"
    /\ effAlone

\* efficiency_vs_energy from the two histograms on: eps and err.
efficiency_vs_energy ==
    /\ fn = "efficiency_vs_energy"
    /\ eff_pc = "binned"
    /\ effFrame
    /\ eff_eps' = efficiency(generated, selected)
    /\ eff_err2' = efficiency_err2(generated, efficiency(generated, selected))
    /\ eff_pc' = "done"
    /\ UNCHANGED <<fn, generated, selected, counts, eff_P, Nexp_xB_Q2,
                   Nexp_xK_Q2>>

\* The efficiency map of plot_relerr_kaon_sf_xK_Q2.
relerr_efficiency ==
    /\ fn = "kaon_sf_efficiency"
    /\ eff_pc = "binned"
    /\ effFrame
    /\ eff_eps' = kaon_sf_efficiency(generated, selected)
    /\ eff_pc' = "done"
    /\ UNCHANGED <<fn, generated, selected, counts, eff_err2, eff_P,
                   Nexp_xB_Q2, Nexp_xK_Q2>>

\* The migration matrix of plot_relerr_kaon_sf_xK_Q2.
relerr_migration ==
    /\ fn = "migration"
    /\ eff_pc = "binned"
    /\ effFrame
    /\ eff_P' = migration(counts)
    /\ eff_pc' = "done"
    /\ UNCHANGED <<fn, generated, selected, counts, eff_eps, eff_err2,
                   Nexp_xB_Q2, Nexp_xK_Q2>>

\* The migration matrix and the projection of the expected counts onto the
\* xK bins, studies_kaon_sf.py:251-258.
relerr_projection ==
    /\ fn = "projection"
    /\ eff_pc = "binned"
    /\ effFrame
    /\ eff_P' = migration(counts)
    /\ Nexp_xK_Q2' = matmul(migration(counts), Nexp_xB_Q2)
    /\ eff_pc' = "done"
    /\ UNCHANGED <<fn, generated, selected, counts, eff_eps, eff_err2,
                   Nexp_xB_Q2>>

EffNext ==
    \/ efficiency_vs_energy
    \/ relerr_efficiency
    \/ relerr_migration
    \/ relerr_projection

SpecEff == EffInit /\ [][EffNext]_vars

(***************************************************************************)
(* Vocabulary of the properties of the binned quantities.                  *)
(***************************************************************************)
\* An efficiency has been computed.
EfficiencyDone ==
    eff_pc = "done" /\ fn \in {"efficiency_vs_energy", "kaon_sf_efficiency"}

\* Two quotients are the same number (nan equals nothing).
SameNumber(a, b) ==
    isfinite(a) /\ isfinite(b) /\ a.num * b.den = b.num * a.den

\* The total of the (truth-bin, Q2-bin) column of a migration histogram.
ColumnTotal(m, ixB, iQ) ==
    SumOver([k \in 0..(xK_edges.bins - 1) |-> m[<<k, ixB, iQ>>]],
            0..(xK_edges.bins - 1))

\* The (truth-bin, Q2-bin) columns.
Columns == (0..(xB_edges.bins - 1)) \X (0..(Q2_edges.bins - 1))

(***************************************************************************)
(* C15: in every binned efficiency computation a bin without generated     *)
(* events has the efficiency NaN, never 0.0.                               *)
(***************************************************************************)
C15_NoDataGivesNaN ==
    EfficiencyDone =>
        \A b \in 1..EBins : generated[b] = 0 => eff_eps[b] = nan

(***************************************************************************)
(* C16: in every bin with generated > 0 the efficiency is                  *)
(* min(1, selected / generated), a number of [0, 1]; generated =           *)
(* [10, 0, 5] and selected = [3, 0, 5] give [0.3, NaN, 1.0].               *)
(***************************************************************************)
C16_ClippedRatio ==
    EfficiencyDone =>
        \A b \in 1..EBins : generated[b] > 0 =>
            /\ SameNumber(eff_eps[b],
                          IF selected[b] >= generated[b] THEN Q(1)
                          ELSE [num |-> selected[b], den |-> generated[b]])
            /\ 0 <= eff_eps[b].num /\ eff_eps[b].num <= eff_eps[b].den

C16_Example ==
    (EfficiencyDone /\ generated = <<10, 0, 5>> /\ selected = <<3, 0, 5>>)
    => /\ SameNumber(eff_eps[1], [num |-> 3, den |-> 10])
       /\ eff_eps[2] = nan
       /\ SameNumber(eff_eps[3], Q(1))

C16_ClippedRatioAndExample == C16_ClippedRatio /\ C16_Example

(***************************************************************************)
(* C17: in the migration matrix P every (truth-bin, Q2-bin) column with a  *)
(* non-zero total holds M / total and sums to 1, and a column with total   *)
(* zero holds 0 everywhere.                                                *)
(***************************************************************************)
C17_ColumnsNormalised ==
    (eff_pc = "done" /\ fn = "migration") =>
        \A c \in Columns :
            LET total == ColumnTotal(counts, c[1], c[2])
                col == [k \in 0..(xK_edges.bins - 1) |-> eff_P[<<k, c[1], c[2]>>]]
            IN  IF total > 0
                THEN /\ \A k \in DOMAIN col :
                           col[k] = [num |-> counts[<<k, c[1], c[2]>>],
                                     den |-> total]
                     /\ SumOver([k \in DOMAIN col |-> col[k].num],
                                DOMAIN col) = total
                ELSE \A k \in DOMAIN col : col[k] = Q(0)

\* A matrix with an empty column and a column shared by two reco bins.
C17_Witness ==
    /\ eff_pc = "done"
    /\ fn = "migration"
    /\ \E c \in Columns : ColumnTotal(counts, c[1], c[2]) = 0
    /\ \E c \in Columns :
          /\ counts[<<0, c[1], c[2]>>] > 0
          /\ counts[<<1, c[1], c[2]>>] > 0

(***************************************************************************)
(* The conversion scripts convert_campaign.py and convert_edm4hep.py: a    *)
(* ROOT macro is run as an external process on every ROOT file of a        *)
(* directory, file by file and macro by macro.                             *)
(***************************************************************************)
\* Most ROOT files the directory may hold.
MaxRootFiles == 2

\* The list "macros" of either script names two macros.
macros == <<1, 2>>

\* A behaviour starts after the test of sys.argv: the directory holds up to
\* MaxRootFiles files, listed by glob in some order; every macro call has
\* its exit status; for convert_edm4hep.py some outputs may exist already.
ConvInit ==
    /\ script \in {"convert_campaign", "convert_edm4hep"}
    /\ \E n \in 0..MaxRootFiles :
         /\ \E p \in CallerOrders(n) : indir = [k \in 1..n |-> [name |-> p[k]]]
         /\ returncode \in [(1..n) \X (1..Len(macros)) -> {0, 1}]
         /\ out_exists \in
              IF script = "convert_edm4hep"
              THEN SUBSET ((1..n) \X (1..Len(macros)))
              ELSE {{}}
    /\ file_idx = 1
    /\ macro_idx = 1
    /\ invoked = <<>>
    /\ conv_pc = "find"
    /\ conv_exit = -1
    /\ convAlone

\* root_files = sorted(indir.glob(...)); sys.exit(message), i.e. exit code
\* 1, when there is none.
find_files ==
    /\ conv_pc = "find"
    /\ convFrame
    /\ IF Len(sorted(indir)) = 0
       THEN conv_pc' = "exited" /\ conv_exit' = 1
       ELSE conv_pc' = "loop" /\ UNCHANGED conv_exit
    /\ UNCHANGED <<script, indir, returncode, out_exists, file_idx,
                   macro_idx, invoked>>

\* The position after the pair (file_idx, macro_idx) of the two loops.
Advance ==
    IF macro_idx < Len(macros)
    THEN macro_idx' = macro_idx + 1 /\ UNCHANGED file_idx
    ELSE macro_idx' = 1 /\ file_idx' = file_idx + 1

\* The body of the inner loop with subprocess.run(cmd, check=False): a
\* failing macro does not raise.
convert_step_no_check ==
    /\ conv_pc = "loop"
    /\ convFrame
    /\ file_idx <= Len(indir)
    /\ LET f == sorted(indir)[file_idx].name
       IN  IF script = "convert_edm4hep" /\ <<f, macro_idx>> \in out_exists
           THEN UNCHANGED invoked
           ELSE invoked' = Append(invoked, <<f, macro_idx>>)
    /\ Advance
    /\ UNCHANGED <<script, indir, returncode, out_exists, conv_pc, conv_exit>>

\* The body of the inner loop for one (file, macro) pair:
\* convert_campaign.py:45-58, convert_edm4hep.py:43-59.  The macro is run
\* unless convert_edm4hep.py finds its output file; a non-zero exit status
\* raises CalledProcessError, answered by sys.exit(1).
convert_step ==
    /\ conv_pc = "loop"
    /\ convFrame
    /\ file_idx <= Len(indir)
    /\ LET f == sorted(indir)[file_idx].name
       IN  IF script = "convert_edm4hep" /\ <<f, macro_idx>> \in out_exists
           THEN /\ Advance
                /\ UNCHANGED <<invoked, conv_pc, conv_exit>>
           ELSE /\ invoked' = Append(invoked, <<f, macro_idx>>)
                /\ IF returncode[<<f, macro_idx>>] # 0
                   THEN /\ conv_pc' = "exited"
                        /\ conv_exit' = 1
                        /\ UNCHANGED <<file_idx, macro_idx>>
                   ELSE /\ Advance
                        /\ UNCHANGED <<conv_pc, conv_exit>>
    /\ UNCHANGED <<script, indir, returncode, out_exists>>

\* The end of the script after the last file: exit code 0.
convert_done ==
    /\ conv_pc = "loop"
    /\ convFrame
    /\ file_idx > Len(indir)
    /\ conv_pc' = "exited"
    /\ conv_exit' = 0
    /\ UNCHANGED <<script, indir, returncode, out_exists, file_idx,
                   macro_idx, invoked>>

ConvNext ==
    \/ find_files
    \/ convert_step
    \/ convert_done

SpecConv == ConvInit /\ [][ConvNext]_vars

(***************************************************************************)
(* Vocabulary of the properties of the conversion loops.                   *)
(***************************************************************************)
\* The (file, macro) pairs in sorted-file then macro-list order.
PairsInOrder ==
    [k \in 1..(Len(indir) * Len(macros)) |->
        <<((k - 1) \div Len(macros)) + 1, ((k - 1) % Len(macros)) + 1>>]

\* The pairs the script does not skip.
NotSkipped(pair) == ~(script = "convert_edm4hep" /\ pair \in out_exists)

\* A macro that was run has exited non-zero.
SomeFailed ==
    \E k \in 1..Len(invoked) : returncode[invoked[k]] # 0

\* The number of pairs the loops have gone through, the failing one included.
Visited ==
    IF conv_pc = "find" THEN 0
    ELSE (file_idx - 1) * Len(macros) + (macro_idx - 1)
         + (IF SomeFailed THEN 1 ELSE 0)

(***************************************************************************)
(* C18: the first macro invocation that exits non-zero stops the loop: no  *)
(* later pair is invoked and the script ends with exit code 1; all pairs   *)
(* before it were invoked, in sorted-file then macro-list order.           *)
(***************************************************************************)
C18_FailureStops ==
    /\ SomeFailed => conv_pc = "exited" /\ conv_exit = 1
    /\ \A k \in 1..Len(invoked) :
          returncode[invoked[k]] # 0 => k = Len(invoked)

\* As stated: every pair before the failing one was invoked.
C18_AllEarlierPairsInvoked ==
    /\ C18_FailureStops
    /\ invoked = SubSeq(PairsInOrder, 1, Len(invoked))

\* Every pair before the failing one that was not skipped (convert_edm4hep
\* skips a pair whose output CSV exists) was invoked, in order.
C18_EarlierPairsInOrder ==
    /\ C18_FailureStops
    /\ invoked = SelectSeq(SubSeq(PairsInOrder, 1, Visited), NotSkipped)

\* Once a macro has failed no further macro is run.
C18_NothingAfterFailure ==
    [][SomeFailed => invoked' = invoked]_vars

C18_StopsAtFirstFailure ==
    []C18_EarlierPairsInOrder /\ C18_NothingAfterFailure

\* The third invocation failed after two that succeeded.
C18_Witness ==
    /\ conv_pc = "exited"
    /\ conv_exit = 1
    /\ Len(invoked) = 3
    /\ returncode[invoked[3]] # 0

(***************************************************************************)
(* The entry points of three command-line scripts and their exit codes:    *)
(* reco_dis_all.py:343-390, aa_helpers.py:263-311 and                      *)
(* plot_detector_acceptance.py:219-310.                                    *)
(***************************************************************************)
\* Most file arguments on a command line.
MaxArgs == 2

\* What a file argument may point at.
CliContents ==
    { [kind |-> "missing", col |-> "x", ids |-> <<>>],
      [kind |-> "corrupt", col |-> "x", ids |-> <<>>],
      [kind |-> "table", col |-> "evt", ids |-> <<0>>],
      [kind |-> "table", col |-> "event", ids |-> <<0>>],
      [kind |-> "table", col |-> "x", ids |-> <<0>>] }

\* A command line accepted by argparse: reco_dis_all.py and aa_helpers.py
\* take one or more files, plot_detector_acceptance.py takes one; --glob
\* exists in aa_helpers.py only.
CliInit ==
    /\ cli_script \in {"reco_dis_all", "aa_helpers", "plot_detector_acceptance"}
    /\ \E n \in 1..MaxArgs :
         /\ cli_script = "plot_detector_acceptance" => n = 1
         /\ \E c \in [1..n -> CliContents] :
              cli_args = [k \in 1..n |->
                            [name |-> k, kind |-> c[k].kind, col |-> c[k].col,
                             ids |-> c[k].ids]]
    /\ use_glob \in (IF cli_script = "aa_helpers" THEN BOOLEAN ELSE {FALSE})
    /\ cli_stderr = <<>>
    /\ cli_stdout = <<>>
    /\ cli_pc = "main"
    /\ cli_exit = -1
    /\ cliAlone

Exit(code, out, errs) ==
    /\ cli_pc' = "exited"
    /\ cli_exit' = code
    /\ cli_stdout' = out
    /\ cli_stderr' = errs
    /\ UNCHANGED <<cli_script, cli_args, use_glob>>

\* The frames load_multiple_csvs appends: the files that load with a row.
Loaded(fs) ==
    SelectSeq(fs, LAMBDA f : load_csv_with_unique_events(f, "evt", 0).df # <<>>)

\* main of reco_dis_all.py with the test os.path.exists left out.
reco_dis_all_main_no_exists ==
    /\ cli_script = "reco_dis_all"
    /\ cli_pc = "main"
    /\ cliFrame
    /\ Exit(0, <<>>, <<>>)

\* main of reco_dis_all.py: exit 1 at the first argument that does not
\* exist; else run_analysis, which returns normally whether or not a file
\* could be read.
reco_dis_all_main ==
    /\ cli_script = "reco_dis_all"
    /\ cli_pc = "main"
    /\ cliFrame
    /\ IF \E k \in 1..Len(cli_args) : cli_args[k].kind = "missing"
       THEN Exit(1, <<>>, <<"Error: File not found">>)
       ELSE IF Loaded(sorted(cli_args)) = <<>>
       THEN Exit(0, <<"Error: No data loaded.">>, <<>>)
       ELSE Exit(0, <<"Analysis complete">>, <<>>)

\* The files convert_to_feather hands to concat_csvs_with_unique_events:
\* with --glob an argument is a pattern and stands for the files it matches
\* (none when nothing exists there).
FilesToProcess ==
    IF use_glob THEN SelectSeq(cli_args, LAMBDA f : f.kind # "missing")
    ELSE cli_args

\* main of aa_helpers.py: every exception of convert_to_feather ends in
\* sys.exit(1).
aa_helpers_main ==
    /\ cli_script = "aa_helpers"
    /\ cli_pc = "main"
    /\ cliFrame
    /\ IF FilesToProcess = <<>>
       THEN Exit(1, <<>>, <<"Error: No files to process">>)
       ELSE IF \E k \in 1..Len(FilesToProcess) :
                   FilesToProcess[k].kind = "missing"
       THEN Exit(1, <<>>, <<"Error: CSV file not found">>)
       ELSE IF \E k \in 1..Len(FilesToProcess) :
                   FilesToProcess[k].kind # "table"
       THEN Exit(1, <<>>, <<"Error: Error reading CSV file">>)
       ELSE IF \E k \in 1..Len(FilesToProcess) :
                   FilesToProcess[k].col # "event"
       THEN Exit(1, <<>>, <<"Error: no 'event' column">>)
       ELSE Exit(0, <<"Conversion complete!">>, <<>>)

\* main of plot_detector_acceptance.py: exit 1 when the file does not exist
\* or pd.read_csv raises; a column that is not there is counted as 0 hits.
plot_detector_acceptance_main ==
    /\ cli_script = "plot_detector_acceptance"
    /\ cli_pc = "main"
    /\ cliFrame
    /\ IF cli_args[1].kind = "missing"
       THEN Exit(1, <<>>, <<"Error: Input file not found">>)
       ELSE IF cli_args[1].kind # "table"
       THEN Exit(1, <<>>, <<"Error reading CSV">>)
       ELSE Exit(0, <<"All plots generated successfully!">>, <<>>)

CliNext ==
    \/ reco_dis_all_main
    \/ aa_helpers_main
    \/ plot_detector_acceptance_main

SpecCli == CliInit /\ [][CliNext]_vars

(***************************************************************************)
(* Vocabulary of the properties of the command lines.                      *)
(***************************************************************************)
IsMissing(f) == f.kind = "missing"
IsUnreadable(f) == f.kind = "corrupt"
LacksEvent(f) == f.kind = "table" /\ f.col # "event"
SomeMissing == \E k \in 1..Len(cli_args) : IsMissing(cli_args[k])
SomeUnreadable == \E k \in 1..Len(cli_args) : IsUnreadable(cli_args[k])
SomeLacksEvent == \E k \in 1..Len(cli_args) : LacksEvent(cli_args[k])

MaxInputs == 2

\* Input paths: directory, name without extension, extension.
InputPaths ==
    { [dir |-> d, stem |-> s, ext |-> "in"] :
          d \in {"data", "more"}, s \in {"file1", "file2"} }

\* The template the callers assign.
JobTemplates == {"#!/bin/bash ... {input_file} ... {output_file} ... {events}"}

\* os.path.splitext(os.path.basename(input_file))[0]
basename(input_file) == input_file.stem

\* os.path.join(self.config['jobs_dir'], f"{basename}.<suffix>"); the two
\* master scripts have fixed names.
JobsPath(name, suffix) == [name |-> name, suffix |-> suffix]

\* open(path, 'w') followed by write: the file is created or replaced.
WriteFile(dir, path, content) ==
    { e \in dir : e.path # path } \cup { [path |-> path, content |-> content] }

\* The content default_container_script_generator returns for an input
\* file, job_runner.py:189-211: the container template, formatted with the
\* parameters of the file.
default_container_script_generator(input_file) ==
    [basename |-> basename(input_file),
     content |-> [from |-> container_script_template,
                  input_file |-> input_file]]

\* The content the caller's own generator returns for an input file,
\* example_job_runner_advanced.py:53-136.
custom_generate_script(input_file) ==
    [basename |-> basename(input_file),
     content |-> [from |-> "custom_generate_script",
                  input_file |-> input_file]]

\* self.container_script_generate_func(input_file), job_runner.py:223.
container_script_generate(input_file) ==
    IF container_script_generate_func = "custom"
    THEN custom_generate_script(input_file)
    ELSE default_container_script_generator(input_file)

\* The lines write_submit_all_script writes with the sbatch lines taken
\* from the container scripts.
submit_all_lines_of_container(scripts) ==
    [sbatch |-> scripts.container, submitted |-> Len(scripts.container)]

\* The lines write_submit_all_script writes, job_runner.py:297-301: one
\* sbatch line per SLURM script and the number of submitted jobs.
submit_all_lines(scripts) ==
    [sbatch |-> scripts.slurm, submitted |-> Len(scripts.slurm)]

\* The lines write_run_all_script writes, job_runner.py:326-346: one
\* singularity exec line per container script and the number of jobs.
run_all_lines(scripts) ==
    [exec |-> scripts.container, completed |-> Len(scripts.container)]

\* The object after __init__: no container template, the default generator,
\* no script generated.
JobInit ==
    /\ \E n \in 0..MaxInputs : input_files \in [1..n -> InputPaths]
    /\ container_script_template = "None"
    /\ container_job_template = "unset"
    /\ generate_container_script = "unset"
    /\ container_script_generate_func = "default"
    /\ generated_scripts = [container |-> <<>>, slurm |-> <<>>, info |-> <<>>]
    /\ jobs_dir = {}
    /\ job_i = 1
    /\ job_pc = "built"
    /\ job_err = "none"
    /\ jobAlone

\* runner.container_script_template = ..., as in 10_create_afterburner_jobs.py.
assign_container_script_template ==
    /\ job_pc = "built"
    /\ jobFrame
    /\ container_script_template = "None"
    /\ container_script_template' \in JobTemplates
    /\ UNCHANGED <<input_files, container_job_template,
                   generate_container_script, container_script_generate_func,
                   generated_scripts, jobs_dir, job_i, job_pc, job_err>>

\* runner.container_job_template = ..., as in the module docstring, in
\* example_job_runner_simple.py and in create_afterburner_jobs.py: Python
\* creates a new attribute of that name on the object.
assign_container_job_template ==
    /\ job_pc = "built"
    /\ jobFrame
    /\ container_job_template = "unset"
    /\ container_job_template' \in JobTemplates
    /\ UNCHANGED <<input_files, container_script_template,
                   generate_container_script, container_script_generate_func,
                   generated_scripts, jobs_dir, job_i, job_pc, job_err>>

\* runner.generate_container_script = custom_generate_script, as in the
\* module docstring and in example_job_runner_advanced.py: a new attribute
\* of that name.
assign_generate_container_script ==
    /\ job_pc = "built"
    /\ jobFrame
    /\ generate_container_script = "unset"
    /\ generate_container_script' = "custom"
    /\ UNCHANGED <<input_files, container_script_template,
                   container_job_template, container_script_generate_func,
                   generated_scripts, jobs_dir, job_i, job_pc, job_err>>

\* runner.container_script_generate_func = custom_generate_script: the
\* attribute __init__ declares replaceable, job_runner.py:149-150.
assign_container_script_generate_func ==
    /\ job_pc = "built"
    /\ jobFrame
    /\ container_script_generate_func = "default"
    /\ container_script_generate_func' = "custom"
    /\ UNCHANGED <<input_files, container_script_template,
                   container_job_template, generate_container_script,
                   generated_scripts, jobs_dir, job_i, job_pc, job_err>>

\* run(), job_runner.py:368-374: the test of the template, then
\* create_directories.
run ==
    /\ job_pc = "built"
    /\ jobFrame
    /\ IF container_script_template = "None"
       THEN /\ job_pc' = "raised"
            /\ job_err' = "ValueError"
       ELSE /\ job_pc' = "processing"
            /\ UNCHANGED job_err
    /\ UNCHANGED <<input_files, container_script_template,
                   container_job_template, generate_container_script,
                   container_script_generate_func, generated_scripts,
                   jobs_dir, job_i>>

\* process_file for one input file, job_runner.py:354-365: the container
\* script, the SLURM script and the info YAML, each written into the jobs
\* directory and recorded in generated_scripts.
process_file ==
    /\ job_pc = "processing"
    /\ jobFrame
    /\ job_i <= Len(input_files)
    /\ LET f == input_files[job_i]
           script_data == container_script_generate(f)
           container_script == JobsPath(script_data.basename, "container.sh")
           slurm_script == JobsPath(basename(f), "slurm.sh")
           info_yaml == JobsPath(basename(f), "info.yaml")
           d1 == WriteFile(jobs_dir, container_script, script_data.content)
           d2 == WriteFile(d1, slurm_script,
                           [from |-> "slurm_script_template",
                            container_script |-> container_script])
           d3 == WriteFile(d2, info_yaml, [input_file |-> f])
       IN  /\ jobs_dir' = d3
           /\ generated_scripts' =
                [container |-> Append(generated_scripts.container,
                                      container_script),
                 slurm |-> Append(generated_scripts.slurm, slurm_script),
                 info |-> Append(generated_scripts.info, info_yaml)]
    /\ job_i' = job_i + 1
    /\ UNCHANGED <<input_files, container_script_template,
                   container_job_template, generate_container_script,
                   container_script_generate_func, job_pc, job_err>>

\* The end of run(), job_runner.py:380-385: write_submit_all_script and
\* write_run_all_script.
write_master_scripts ==
    /\ job_pc = "processing"
    /\ jobFrame
    /\ job_i > Len(input_files)
    /\ jobs_dir' =
         WriteFile(
           WriteFile(jobs_dir, JobsPath("submit_all_slurm_jobs", "sh"),
                     submit_all_lines(generated_scripts)),
           JobsPath("run_all_local", "sh"),
           run_all_lines(generated_scripts))
    /\ job_pc' = "done"
    /\ UNCHANGED <<input_files, container_script_template,
                   container_job_template, generate_container_script,
                   container_script_generate_func, generated_scripts, job_i,
                   job_err>>

JobNext ==
    \/ assign_container_script_template
    \/ assign_container_job_template
    \/ assign_generate_container_script
    \/ assign_container_script_generate_func
    \/ run
    \/ process_file
    \/ write_master_scripts

SpecJob == JobInit /\ [][JobNext]_vars

(***************************************************************************)
(* Vocabulary of the properties of JobRunner.                              *)
(***************************************************************************)
\* run() has returned or raised.
RunEnded == job_pc \in {"done", "raised"}

\* The paths of the files in the jobs directory.
JobsDirPaths == { e.path : e \in jobs_dir }

(***************************************************************************)
(* C20: a JobRunner on which the caller has assigned                       *)
(* container_job_template and called run() has generated, without          *)
(* raising, one container script, one SLURM script and one info YAML per   *)
(* input file and the two master scripts.                                  *)
(***************************************************************************)
C20_JobTemplateThenRun ==
    (RunEnded /\ container_job_template # "unset") =>
        /\ job_err = "none"
        /\ Len(generated_scripts.container) = Len(input_files)
        /\ Len(generated_scripts.slurm) = Len(input_files)
        /\ Len(generated_scripts.info) = Len(input_files)
        /\ JobsPath("submit_all_slurm_jobs", "sh") \in JobsDirPaths
        /\ JobsPath("run_all_local", "sh") \in JobsDirPaths

\* The content of the file of the jobs directory at a path.
FileAt(path) == { e.content : e \in { x \in jobs_dir : x.path = path } }

\* The caller's generator, asked for the script of the k-th input file.
CustomScript(k) == custom_generate_script(input_files[k])

(***************************************************************************)
(* C21: when the caller has assigned a custom generator to                 *)
(* generate_container_script and run() has returned, the container script  *)
(* of every input file holds what the custom generator returns for an      *)
(* input file of that name, never the content made from the default        *)
(* template.                                                               *)
(***************************************************************************)
C21_CustomGeneratorUsed ==
    (job_pc = "done" /\ generate_container_script = "custom") =>
        \A k \in 1..Len(input_files) :
            FileAt(JobsPath(CustomScript(k).basename, "container.sh"))
                \subseteq { CustomScript(j).content :
                                j \in 1..Len(input_files) }

(***************************************************************************)
(* main and validate_file_pairs of csv_b2root.py, lines 76-107 and         *)
(* 1008-1042: every mc_dis.csv given must have its reco_dis.csv.           *)
(***************************************************************************)
\* Longest list of input files on the command line.
MaxMc == 2

\* File paths: the beam energy in the name and the end of the name.
B2rPaths ==
    { [energy |-> e, suffix |-> s] :
          e \in {"5x41", "10x100"}, s \in {"mc_dis.csv", "reco_dis.csv"} }
    \cup { [energy |-> "none", suffix |-> "mc_dis.csv"],
           [energy |-> "none", suffix |-> "reco_dis.csv"] }

\* The paths a caller gives: mc_dis.csv files.
McPaths == { f \in B2rPaths : f.suffix = "mc_dis.csv" }

\* mc_file.replace('mc_dis.csv', 'reco_dis.csv')
replace_mc_dis(mc_file) ==
    IF mc_file.suffix = "mc_dis.csv"
    THEN [mc_file EXCEPT !.suffix = "reco_dis.csv"]
    ELSE mc_file

\* extract_beam_energy, with 'unknown' for a name without an energy.
extract_beam_energy(filepath) ==
    IF filepath.energy = "none" THEN "unknown" ELSE filepath.energy

\* missing_files with only the first missing file kept.
append_missing_first_only(missing, reco_file) ==
    IF missing = <<>> THEN <<reco_file>> ELSE missing

\* missing_files.append(reco_file)
append_missing(missing, reco_file) == Append(missing, reco_file)

\* The energies of a list of pairs in the order of their first pair, as
\* the keys of the dict group_files_by_beam_energy builds.
RECURSIVE group_keys(_)
group_keys(pairs) ==
    IF pairs = <<>> THEN <<>>
    ELSE LET before == group_keys(SubSeq(pairs, 1, Len(pairs) - 1))
             e == extract_beam_energy(pairs[Len(pairs)][1])
         IN  IF \E k \in 1..Len(before) : before[k] = e
             THEN before ELSE Append(before, e)

\* group_files_by_beam_energy: for every energy its pairs, in input order.
group_files_by_beam_energy(pairs) ==
    [k \in 1..Len(group_keys(pairs)) |->
        [beam_energy |-> group_keys(pairs)[k],
         pairs |-> SelectSeq(pairs,
                     LAMBDA p : extract_beam_energy(p[1])
                                    = group_keys(pairs)[k])]]

\* parse_args: one input file at least (nargs='+'); any of the reco files
\* may exist.
B2rInit ==
    /\ \E n \in 1..MaxMc : b2r_args \in [1..n -> McPaths]
    /\ b2r_fs \in SUBSET { f \in B2rPaths : f.suffix = "reco_dis.csv" }
    /\ b2r_k = 1
    /\ b2r_pairs = <<>>
    /\ b2r_missing = <<>>
    /\ b2r_pc = "validating"
    /\ b2r_exit = -1
    /\ b2r_stderr = <<>>
    /\ b2r_analysed = <<>>
    /\ b2rAlone

\* One iteration of "for mc_file in mc_dis_files", csv_b2root.py:92-99.
validate_file_pairs_step ==
    /\ b2r_pc = "validating"
    /\ b2rFrame
    /\ b2r_k <= Len(b2r_args)
    /\ LET mc_file == b2r_args[b2r_k]
           reco_file == replace_mc_dis(mc_file)
       IN  IF reco_file \notin b2r_fs
           THEN /\ b2r_missing' = append_missing(b2r_missing, reco_file)
                /\ UNCHANGED b2r_pairs
           ELSE /\ b2r_pairs' = Append(b2r_pairs, <<mc_file, reco_file>>)
                /\ UNCHANGED b2r_missing
    /\ b2r_k' = b2r_k + 1
    /\ UNCHANGED <<b2r_args, b2r_fs, b2r_pc, b2r_exit, b2r_stderr,
                   b2r_analysed>>

\* The end of validate_file_pairs, csv_b2root.py:101-107, and what main
\* does with it, lines 1014-1018: FileNotFoundError is printed and the
\* script exits with code 1.
validate_file_pairs_return ==
    /\ b2r_pc = "validating"
    /\ b2rFrame
    /\ b2r_k > Len(b2r_args)
    /\ IF b2r_missing # <<>>
       THEN /\ b2r_stderr' = b2r_missing
            /\ b2r_exit' = 1
            /\ b2r_pc' = "exited"
       ELSE /\ b2r_pc' = "validated"
            /\ UNCHANGED <<b2r_stderr, b2r_exit>>
    /\ UNCHANGED <<b2r_args, b2r_fs, b2r_k, b2r_pairs, b2r_missing,
                   b2r_analysed>>

\* The rest of main, csv_b2root.py:1020-1042: the pairs are grouped and
\* analyze_beam_energy is called for every beam energy.
b2root_main_analyse ==
    /\ b2r_pc = "validated"
    /\ b2rFrame
    /\ b2r_analysed' = group_files_by_beam_energy(b2r_pairs)
    /\ b2r_exit' = 0
    /\ b2r_pc' = "exited"
    /\ UNCHANGED <<b2r_args, b2r_fs, b2r_k, b2r_pairs, b2r_missing,
                   b2r_stderr>>

B2rNext ==
    \/ validate_file_pairs_step
    \/ validate_file_pairs_return
    \/ b2root_main_analyse

SpecB2r == B2rInit /\ [][B2rNext]_vars

(***************************************************************************)
(* Vocabulary of the properties of csv_b2root.                             *)
(***************************************************************************)
\* The reco_dis.csv a given mc_dis.csv needs.
RecoOf(mc_file) == [energy |-> mc_file.energy, suffix |-> "reco_dis.csv"]

\* The inputs whose reco file does not exist.
MissingInputs == { k \in 1..Len(b2r_args) : RecoOf(b2r_args[k]) \notin b2r_fs }

\* The files an error message names.
Named(message) == { message[k] : k \in 1..Len(message) }

(***************************************************************************)
(* C22: when the reco file of at least one input is missing, the error     *)
(* names every missing file, no beam energy is analysed and the exit code  *)
(* is 1; when none is missing, validate_file_pairs returns one (mc, reco)  *)
(* pair per input, in input order.                                         *)
(***************************************************************************)
C22_RecoRequired ==
    /\ (b2r_pc = "exited" /\ MissingInputs # {}) =>
          /\ b2r_exit = 1
          /\ Named(b2r_stderr) = { RecoOf(b2r_args[k]) : k \in MissingInputs }
          /\ b2r_analysed = <<>>
    /\ (b2r_pc \in {"validated", "exited"} /\ MissingInputs = {}) =>
          /\ b2r_pairs =
               [k \in 1..Len(b2r_args) |->
                   <<b2r_args[k], RecoOf(b2r_args[k])>>]
          /\ b2r_pc = "exited" => b2r_exit = 0

\* Two inputs with two different missing reco files have been refused.
C22_Witness ==
    /\ b2r_pc = "exited"
    /\ b2r_exit = 1
    /\ Cardinality(Named(b2r_stderr)) = 2

\* Two inputs of different energies have been validated and analysed.
C22_WitnessAccepted ==
    /\ b2r_pc = "exited"
    /\ b2r_exit = 0
    /\ Len(b2r_analysed) = 2

(***************************************************************************)
(* The axis of a histogram: determine_histogram_bins and create_histogram  *)
(* of csv_reco_dis_analysis.py:40-99, create_histogram of                  *)
(* reco_dis_all.py:192-213, and compute_data_range of                      *)
(* csv_b2root.py:264-272 as save_2d_histogram calls it.  Numbers are       *)
(* counted in millionths, so that a half, a hundredth of a difference and  *)
(* 1e-6 are all whole.                                                     *)
(***************************************************************************)
\* The number 1 in millionths.
One == 1000000

\* The values of a column and how many rows hold each of them.
HstValues == {NaN, 0, 3 * One}
HstCounts == {0, 1, 120}

\* The columns: the event number, an identifier, a kinematic variable with
\* a configured range, and a column no rule names.
HstColumns == {"evt", "particle_id", "da_x", "other"}

\* data[~np.isnan(data)] and data[np.isfinite(data)]: the values left, each
\* with its number of rows.
clean(data) == { v \in DOMAIN data : v # NaN /\ data[v] > 0 }

\* len(clean_data)
len(data) ==
    LET RECURSIVE total(_)
        total(S) == IF S = {} THEN 0
                    ELSE LET v == CHOOSE x \in S : TRUE
                         IN  data[v] + total(S \ {v})
    IN  total(clean(data))

\* The element at 0-based position k of the sorted clean data.
sorted_at(data, k) ==
    CHOOSE v \in clean(data) :
        LET below == { w \in clean(data) : w < v }
            upto == { w \in clean(data) : w <= v }
            RECURSIVE total(_)
            total(S) == IF S = {} THEN 0
                        ELSE LET x == CHOOSE y \in S : TRUE
                             IN  data[x] + total(S \ {x})
        IN  total(below) <= k /\ k < total(upto)

\* np.percentile(clean_data, q): linear interpolation between the two
\* elements around position q / 100 * (n - 1).
percentile(data, q) ==
    LET n == len(data)
        pos == q * (n - 1)
        k == pos \div 100
        lo == sorted_at(data, k)
        hi == IF k + 1 < n THEN sorted_at(data, k + 1) ELSE lo
    IN  lo + ((pos - 100 * k) * ((hi - lo) \div 100))

\* clean_data.min() and clean_data.max()
data_min(data) == CHOOSE v \in clean(data) : \A w \in clean(data) : v <= w
data_max(data) == CHOOSE v \in clean(data) : \A w \in clean(data) : v >= w

\* int(min(100, len(clean_data) / 100)), csv_reco_dis_analysis.py:50.
evt_bins(data) ==
    IF len(data) \div 100 < 100 THEN len(data) \div 100 ELSE 100

\* determine_histogram_bins, csv_reco_dis_analysis.py:40-76, on clean data
\* that is not empty.
determine_histogram_bins(data, column_name) ==
    CASE column_name = "evt" ->
           [bins |-> evt_bins(data), low |-> data_min(data),
            high |-> data_max(data)]
      [] column_name = "particle_id" ->
           [bins |-> Cardinality(clean(data)),
            low |-> data_min(data) - One \div 2,
            high |-> data_max(data) + One \div 2]
      [] column_name = "da_x" ->
           [bins |-> 75, low |-> percentile(data, 1),
            high |-> percentile(data, 99)]
      [] OTHER ->
           [bins |-> 50, low |-> percentile(data, 5),
            high |-> percentile(data, 95)]

\* hist.axis.Regular(bins, low, high) raises for an axis without bins or
\* without width.
Regular(axis) ==
    IF axis.bins >= 1 /\ axis.low < axis.high THEN "built" ELSE "crashed"

\* One call on one column of one table.
HstInit ==
    /\ hst_fn \in {"csv_reco_dis_analysis", "reco_dis_all", "csv_b2root"}
    /\ hst_column \in HstColumns
    /\ hst_data \in [HstValues -> HstCounts]
    /\ hst_axis = <<>>
    /\ hst_pc = "called"
    /\ hstAlone

\* create_histogram of csv_reco_dis_analysis.py:79-99.
csv_reco_dis_analysis_create_histogram ==
    /\ hst_fn = "csv_reco_dis_analysis"
    /\ hst_pc = "called"
    /\ hstFrame
    /\ IF clean(hst_data) = {}
       THEN /\ hst_pc' = "skipped"
            /\ UNCHANGED hst_axis
       ELSE LET b == determine_histogram_bins(hst_data, hst_column)
                axis == IF b.low = b.high
                        THEN [bins |-> b.bins, low |-> b.low - One \div 2,
                              high |-> b.high + One \div 2]
                        ELSE b
            IN  /\ hst_axis' = axis
                /\ hst_pc' = Regular(axis)
    /\ UNCHANGED <<hst_fn, hst_column, hst_data>>

\* create_histogram of reco_dis_all.py:192-213: a configured range for
\* da_x, the range of the data for a column without configuration.
reco_dis_all_create_histogram ==
    /\ hst_fn = "reco_dis_all"
    /\ hst_pc = "called"
    /\ hstFrame
    /\ IF hst_column = "da_x"
       THEN /\ hst_axis' = [bins |-> 100, low |-> 0, high |-> One]
            /\ hst_pc' = Regular([bins |-> 100, low |-> 0, high |-> One])
       ELSE IF clean(hst_data) = {}
       THEN /\ hst_pc' = "skipped"
            /\ UNCHANGED hst_axis
       ELSE LET low == percentile(hst_data, 1)
                high == percentile(hst_data, 99)
                axis == IF low = high
                        THEN [bins |-> 100, low |-> low - One,
                              high |-> high + One]
                        ELSE [bins |-> 100, low |-> low, high |-> high]
            IN  /\ hst_axis' = axis
                /\ hst_pc' = Regular(axis)
    /\ UNCHANGED <<hst_fn, hst_column, hst_data>>

\* compute_data_range, csv_b2root.py:264-272, on the finite values
\* save_2d_histogram passes (lines 299-318), and the 100 bins of the plot.
compute_data_range ==
    /\ hst_fn = "csv_b2root"
    /\ hst_pc = "called"
    /\ hstFrame
    /\ IF clean(hst_data) = {}
       THEN /\ hst_pc' = "skipped"
            /\ UNCHANGED hst_axis
       ELSE LET lo == percentile(hst_data, 1)
                hi == percentile(hst_data, 99)
                axis == IF clean(hst_data) = {0}
                        THEN [bins |-> 100, low |-> 0, high |-> One]
                        ELSE IF lo # hi
                        THEN [bins |-> 100, low |-> lo, high |-> hi]
                        ELSE [bins |-> 100, low |-> lo, high |-> lo + 1]
            IN  /\ hst_axis' = axis
                /\ hst_pc' = Regular(axis)
    /\ UNCHANGED <<hst_fn, hst_column, hst_data>>

HstNext ==
    \/ csv_reco_dis_analysis_create_histogram
    \/ reco_dis_all_create_histogram
    \/ compute_data_range

SpecHst == HstInit /\ [][HstNext]_vars

(***************************************************************************)
(* C23: for a column that holds at least one non-NaN value, the axis is    *)
(* built, with low < high and with at least one bin, whatever the number   *)
(* of rows.                                                                *)
(***************************************************************************)
C23_AxisNeverDegenerate ==
    (hst_pc # "called" /\ clean(hst_data) # {}) =>
        /\ hst_pc = "built"
        /\ hst_axis.low < hst_axis.high
        /\ hst_axis.bins >= 1

\* The part of C23 that holds: the range of the axis always has a width.
C23_LowBelowHigh ==
    (hst_pc # "called" /\ clean(hst_data) # {}) =>
        hst_axis.low < hst_axis.high

\* The number of input files.
NInputs == Len(input_files)

\* The script paths expected for the input files, in input order.
ExpectedPaths(suffix) ==
    [k \in 1..NInputs |-> [name |-> input_files[k].stem, suffix |-> suffix]]

(***************************************************************************)
(* C24: after run() has completed on n input files, generated_scripts      *)
(* holds n container, n SLURM and n info entries in input-file order, the  *)
(* i-th SLURM script invokes the i-th container script, and                *)
(* submit_all_slurm_jobs.sh holds one sbatch line per SLURM script in that *)
(* order and reports n submitted jobs.                                     *)
(***************************************************************************)
C24_ScriptsInInputOrder ==
    job_pc = "done" =>
        /\ generated_scripts.container = ExpectedPaths("container.sh")
        /\ generated_scripts.slurm = ExpectedPaths("slurm.sh")
        /\ generated_scripts.info = ExpectedPaths("info.yaml")
        /\ \A k \in 1..NInputs :
             \A c \in FileAt(generated_scripts.slurm[k]) :
                 c.container_script = generated_scripts.container[k]
        /\ \A k \in 1..NInputs : FileAt(generated_scripts.slurm[k]) # {}
        /\ FileAt(JobsPath("submit_all_slurm_jobs", "sh")) =
             { [sbatch |-> ExpectedPaths("slurm.sh"), submitted |-> NInputs] }

\* run() has completed on two input files of different names.
C24_Witness ==
    /\ job_pc = "done"
    /\ NInputs = 2
    /\ input_files[1].stem # input_files[2].stem

\* No input file is given twice.
DistinctInputs ==
    \A a, b \in 1..NInputs : a # b => input_files[a] # input_files[b]

\* No element appears twice in a sequence.
NoRepeat(s) == \A a, b \in 1..Len(s) : a # b => s[a] # s[b]

(***************************************************************************)
(* C28: after run() on distinct input files, the container-script, SLURM   *)
(* script and info-YAML paths are distinct: the info YAML of every input   *)
(* file is still the one written for it, and no path appears twice in      *)
(* generated_scripts or in the submit-all and run-all scripts.             *)
(***************************************************************************)
C28_DistinctPaths ==
    (job_pc = "done" /\ DistinctInputs) =>
        /\ NoRepeat(generated_scripts.container)
        /\ NoRepeat(generated_scripts.slurm)
        /\ NoRepeat(generated_scripts.info)
        /\ \A k \in 1..NInputs :
             FileAt(generated_scripts.info[k])
                 = { [input_file |-> input_files[k]] }
        /\ \A c \in FileAt(JobsPath("submit_all_slurm_jobs", "sh")) :
             NoRepeat(c.sbatch)
        /\ \A c \in FileAt(JobsPath("run_all_local", "sh")) :
             NoRepeat(c.exec)

(***************************************************************************)
(* pipeline.py: create_jobs, submit_jobs, clean_flags and main, lines      *)
(* 64-152 and 228-282.  The flag files .jobs_created and .jobs_submitted   *)
(* and the submit script of every energy live on disk and outlast the      *)
(* invocations of the script; the job-creation command and the submit      *)
(* script are programs of the environment, which may fail.                 *)
(***************************************************************************)
\* The number of beam energies of ENERGIES that are followed.
NEnergies == 2

\* ENERGIES, pipeline.py:24.
ENERGIES == SubSeq(<<"5x41", "10x100", "10x130", "18x275">>, 1, NEnergies)

EnergySet == { ENERGIES[k] : k \in 1..Len(ENERGIES) }

\* What the job-creation command may do: its exit code, and whether it
\* leaves submit_all_slurm_jobs.sh in the output directory.
CreateOutcomes == [rc : {0, 1}, writes : BOOLEAN]

\* The exit codes of "bash submit_all_slurm_jobs.sh" when the script exists.
SubmitOutcomes == {0, 1}

\* A call that did not happen.
NoCall == [ret |-> "none", ran |-> FALSE, ok |-> FALSE]

\* create_jobs after the test of the flag file, pipeline.py:75-112: the
\* HEPMC files, the test mode, the job-creation command and the test of
\* the submit script.
create_jobs_unflagged(disk, energy, test_mode, env) ==
    LET submit_script == IF env.writes THEN disk.script \cup {energy}
                         ELSE disk.script
    IN  IF energy \notin pl_hepmc
        THEN [ret |-> "False", ran |-> FALSE, ok |-> FALSE, disk |-> disk]
        ELSE IF test_mode
        THEN [ret |-> "True", ran |-> FALSE, ok |-> FALSE,
              disk |-> [disk EXCEPT !.created = @ \cup {energy}]]
        ELSE IF env.rc # 0 \/ energy \notin submit_script
        THEN [ret |-> "False", ran |-> TRUE, ok |-> FALSE,
              disk |-> [disk EXCEPT !.script = submit_script]]
        ELSE [ret |-> "True", ran |-> TRUE, ok |-> TRUE,
              disk |-> [disk EXCEPT !.script = submit_script,
                                    !.created = @ \cup {energy}]]

\* create_jobs without the test of the flag file.
create_jobs_no_flag_check(disk, energy, test_mode, env) ==
    create_jobs_unflagged(disk, energy, test_mode, env)

\* create_jobs(energy, test_mode), pipeline.py:64-112: what it returns,
\* whether it ran the job-creation command, whether that run succeeded
\* (exit code 0 and the submit script in place), and the disk afterwards.
create_jobs(disk, energy, test_mode, env) ==
    IF energy \in disk.created
    THEN [ret |-> "True", ran |-> FALSE, ok |-> FALSE, disk |-> disk]
    ELSE create_jobs_unflagged(disk, energy, test_mode, env)

\* submit_jobs after the tests of the two flag files, pipeline.py:130-152:
\* the test mode and the execution of the submit script; bash fails on a
\* submit script that does not exist.
submit_jobs_created(disk, energy, test_mode, rc) ==
    IF test_mode
    THEN [ret |-> "True", ran |-> FALSE, ok |-> FALSE,
          disk |-> [disk EXCEPT !.submitted = @ \cup {energy}]]
    ELSE IF energy \notin disk.script \/ rc # 0
    THEN [ret |-> "False", ran |-> TRUE, ok |-> FALSE, disk |-> disk]
    ELSE [ret |-> "True", ran |-> TRUE, ok |-> TRUE,
          disk |-> [disk EXCEPT !.submitted = @ \cup {energy}]]

\* submit_jobs without the test of .jobs_created.
submit_jobs_no_created_check(disk, energy, test_mode, rc) ==
    IF energy \in disk.submitted
    THEN [ret |-> "True", ran |-> FALSE, ok |-> FALSE, disk |-> disk]
    ELSE submit_jobs_created(disk, energy, test_mode, rc)

\* submit_jobs(energy, test_mode), pipeline.py:114-152.
submit_jobs(disk, energy, test_mode, rc) ==
    IF energy \in disk.submitted
    THEN [ret |-> "True", ran |-> FALSE, ok |-> FALSE, disk |-> disk]
    ELSE IF energy \notin disk.created
    THEN [ret |-> "False", ran |-> FALSE, ok |-> FALSE, disk |-> disk]
    ELSE submit_jobs_created(disk, energy, test_mode, rc)

\* The executions since the last clean, with one more for a call that ran
\* its command with success.
Counted(hist, energy, c, s) ==
    [create_ok |-> [hist.create_ok EXCEPT ![energy] =
                       IF c.ok THEN @ + 1 ELSE @],
     submit_ok |-> [hist.submit_ok EXCEPT ![energy] =
                       IF s.ok THEN @ + 1 ELSE @]]

\* What is remembered of the calls of one iteration of main's loop.
Calls(energy, c, s) ==
    [energy |-> energy,
     create |-> [ret |-> c.ret, ran |-> c.ran, ok |-> c.ok],
     submit |-> [ret |-> s.ret, ran |-> s.ran, ok |-> s.ok]]

NoHistory ==
    [create_ok |-> [e \in EnergySet |-> 0],
     submit_ok |-> [e \in EnergySet |-> 0]]

\* A fresh output area: no flag, no submit script; the priority directories
\* of some energies hold HEPMC files.
PlInit ==
    /\ pl_disk = [created |-> {}, submitted |-> {}, script |-> {}]
    /\ pl_hepmc \in SUBSET EnergySet
    /\ pl_action = "none"
    /\ pl_todo = <<>>
    /\ pl_test = FALSE
    /\ pl_pc = "shell"
    /\ pl_hist = NoHistory
    /\ pl_last = <<>>
    /\ plAlone

\* main up to the loop, pipeline.py:242-271: the action, --energy and
\* --test of one invocation.
pipeline_main ==
    /\ pl_pc = "shell"
    /\ plFrame
    /\ pl_action' \in {"create", "submit", "run"}
    /\ \E energy \in EnergySet \cup {"None"} :
         pl_todo' = IF energy = "None" THEN ENERGIES ELSE <<energy>>
    /\ pl_test' \in BOOLEAN
    /\ pl_pc' = "loop"
    /\ pl_last' = <<>>
    /\ UNCHANGED <<pl_disk, pl_hepmc, pl_hist>>

\* One iteration of "for energy in energies: create_jobs(...)".
pipeline_create ==
    /\ pl_pc = "loop"
    /\ plFrame
    /\ pl_action = "create"
    /\ pl_todo # <<>>
    /\ \E env \in CreateOutcomes :
         LET c == create_jobs(pl_disk, Head(pl_todo), pl_test, env)
         IN  /\ pl_disk' = c.disk
             /\ pl_hist' = Counted(pl_hist, Head(pl_todo), c, NoCall)
             /\ pl_last' = Calls(Head(pl_todo), c, NoCall)
    /\ pl_todo' = Tail(pl_todo)
    /\ UNCHANGED <<pl_hepmc, pl_action, pl_test, pl_pc>>

\* One iteration of "for energy in energies: submit_jobs(...)".
pipeline_submit ==
    /\ pl_pc = "loop"
    /\ plFrame
    /\ pl_action = "submit"
    /\ pl_todo # <<>>
    /\ \E rc \in SubmitOutcomes :
         LET s == submit_jobs(pl_disk, Head(pl_todo), pl_test, rc)
         IN  /\ pl_disk' = s.disk
             /\ pl_hist' = Counted(pl_hist, Head(pl_todo), NoCall, s)
             /\ pl_last' = Calls(Head(pl_todo), NoCall, s)
    /\ pl_todo' = Tail(pl_todo)
    /\ UNCHANGED <<pl_hepmc, pl_action, pl_test, pl_pc>>

\* One iteration of the loop of the run action, pipeline.py:271-273:
\* "if create_jobs(...): submit_jobs(...)".
pipeline_run ==
    /\ pl_pc = "loop"
    /\ plFrame
    /\ pl_action = "run"
    /\ pl_todo # <<>>
    /\ \E env \in CreateOutcomes, rc \in SubmitOutcomes :
         LET c == create_jobs(pl_disk, Head(pl_todo), pl_test, env)
             s == IF c.ret = "True"
                  THEN submit_jobs(c.disk, Head(pl_todo), pl_test, rc)
                  ELSE [ret |-> "none", ran |-> FALSE, ok |-> FALSE,
                        disk |-> c.disk]
         IN  /\ pl_disk' = s.disk
             /\ pl_hist' = Counted(pl_hist, Head(pl_todo), c, s)
             /\ pl_last' = Calls(Head(pl_todo), c, s)
    /\ pl_todo' = Tail(pl_todo)
    /\ UNCHANGED <<pl_hepmc, pl_action, pl_test, pl_pc>>

\* The loop of main is over and the script ends.
pipeline_return ==
    /\ pl_pc = "loop"
    /\ plFrame
    /\ pl_todo = <<>>
    /\ pl_pc' = "shell"
    /\ pl_action' = "none"
    /\ pl_test' = FALSE
    /\ pl_last' = <<>>
    /\ UNCHANGED <<pl_disk, pl_hepmc, pl_todo, pl_hist>>

\* The clean action, clean_flags, pipeline.py:228-240: both flags of every
\* energy are removed, whatever --energy says.
clean_flags ==
    /\ pl_pc = "shell"
    /\ plFrame
    /\ pl_disk' = [pl_disk EXCEPT !.created = {}, !.submitted = {}]
    /\ pl_hist' = NoHistory
    /\ UNCHANGED <<pl_hepmc, pl_action, pl_todo, pl_test, pl_pc, pl_last>>

PlNext ==
    \/ pipeline_main
    \/ pipeline_create
    \/ pipeline_submit
    \/ pipeline_run
    \/ pipeline_return
    \/ clean_flags

SpecPl == PlInit /\ [][PlNext]_vars

(***************************************************************************)
(* Vocabulary of the properties of pipeline.py.                            *)
(***************************************************************************)
\* The next iteration of main's loop calls submit_jobs first, for an energy
\* without .jobs_created.
SubmitWithoutCreated ==
    /\ pl_pc = "loop"
    /\ pl_action = "submit"
    /\ pl_todo # <<>>
    /\ Head(pl_todo) \notin pl_disk.created

\* A step refuses: False is returned and the disk is as before.
Refused == pl_last'.submit.ret = "False" /\ pl_disk' = pl_disk

\* Every .jobs_submitted has its .jobs_created.
SubmittedOnlyIfCreated == pl_disk.submitted \subseteq pl_disk.created

(***************************************************************************)
(* C25: after any sequence of create, submit, run and clean actions, with  *)
(* or without --energy and --test, .jobs_submitted exists for an energy    *)
(* only if .jobs_created exists, and submit_jobs refuses and changes       *)
(* nothing when .jobs_created is absent.                                   *)
(***************************************************************************)
C25_SubmittedNeedsCreated ==
    /\ []SubmittedOnlyIfCreated
    /\ [][SubmitWithoutCreated => Refused]_vars

\* submit_jobs has just refused an energy whose jobs were not created.
C25_Witness ==
    /\ pl_last # <<>>
    /\ pl_action = "submit"
    /\ pl_last.submit.ret = "False"
    /\ ~pl_last.submit.ran
    /\ pl_last.energy \notin pl_disk.created
    /\ pl_disk.submitted # {}

\* A step is one iteration of main's loop for one of the given actions.
LoopStep(actions) ==
    /\ pl_pc = "loop"
    /\ pl_action \in actions
    /\ pl_todo # <<>>
    /\ pl_todo' = Tail(pl_todo)

\* Since the last clean, no energy has seen the job-creation command or the
\* submit script succeed twice.
AtMostOnceEach ==
    \A e \in EnergySet :
        pl_hist.create_ok[e] <= 1 /\ pl_hist.submit_ok[e] <= 1

\* With its flag in place a function returns True and runs nothing.
FlagShortCircuits ==
    /\ (LoopStep({"create", "run"}) /\ Head(pl_todo) \in pl_disk.created)
          => (pl_last'.create.ret = "True" /\ ~pl_last'.create.ran)
    /\ (LoopStep({"submit", "run"}) /\ Head(pl_todo) \in pl_disk.submitted)
          => (pl_last'.submit.ret = "True" /\ ~pl_last'.submit.ran)

\* A failure sets no flag, and without the flag the next real call runs the
\* command again.
FailureIsRetried ==
    /\ (LoopStep({"create", "submit", "run"})
          /\ pl_last'.create.ret = "False")
          => pl_disk'.created = pl_disk.created
    /\ (LoopStep({"create", "submit", "run"})
          /\ pl_last'.submit.ret = "False")
          => pl_disk'.submitted = pl_disk.submitted
    /\ (LoopStep({"create", "run"}) /\ ~pl_test
          /\ Head(pl_todo) \notin pl_disk.created
          /\ Head(pl_todo) \in pl_hepmc)
          => pl_last'.create.ran
    /\ (LoopStep({"submit"}) /\ ~pl_test
          /\ Head(pl_todo) \notin pl_disk.submitted
          /\ Head(pl_todo) \in pl_disk.created)
          => pl_last'.submit.ran

\* The run action calls submit_jobs only after create_jobs returned True.
RunSubmitsAfterCreate ==
    (LoopStep({"run"}) /\ pl_last'.submit.ret # "none")
        => pl_last'.create.ret = "True"

(***************************************************************************)
(* C26: between two clean actions the job-creation command and the submit  *)
(* script each succeed at most once per energy (a creation succeeds when    *)
(* the command exits with 0 and the submit script is in place): with its   *)
(* flag in place create_jobs, resp. submit_jobs, returns True and runs     *)
(* nothing; a failed creation or submission sets no flag and is retried by *)
(* a later call; the run action calls submit_jobs only when create_jobs    *)
(* returned True.                                                          *)
(***************************************************************************)
C26_AtMostOncePerEnergy ==
    /\ []AtMostOnceEach
    /\ [][FlagShortCircuits /\ FailureIsRetried /\ RunSubmitsAfterCreate]_vars

\* After a creation that succeeded, a second call of create_jobs for the
\* same energy has returned True without running the command.
C26_Witness ==
    /\ pl_last # <<>>
    /\ pl_hist.create_ok[pl_last.energy] = 1
    /\ pl_last.create.ret = "True"
    /\ ~pl_last.create.ran
    /\ ~pl_test

\* Every flag stands for a command that really succeeded.
FlagsAreEarned ==
    \A e \in EnergySet :
        /\ e \in pl_disk.created =>
              (pl_hist.create_ok[e] >= 1 /\ e \in pl_disk.script)
        /\ e \in pl_disk.submitted => pl_hist.submit_ok[e] >= 1

\* A run without --test, for an energy with HEPMC files whose jobs were
\* never really created, runs the job-creation command.
RealRunCreates ==
    (LoopStep({"run"}) /\ ~pl_test
        /\ Head(pl_todo) \in pl_hepmc
        /\ pl_hist.create_ok[Head(pl_todo)] = 0)
        => pl_last'.create.ran

(***************************************************************************)
(* C27: for every energy and after any sequence of actions, --test runs    *)
(* included, .jobs_created exists only if the job-creation command ran     *)
(* with exit code 0 and the submit script exists, .jobs_submitted exists   *)
(* only if the submit script was executed with exit code 0, and a run with *)
(* --test does not keep a later run without --test from really creating    *)
(* and submitting the jobs.                                                *)
(***************************************************************************)
C27_FlagsMeanRealWork ==
    /\ []FlagsAreEarned
    /\ [][RealRunCreates]_vars

\* The second half of C27 alone: the later run without --test.
C27_TestRunLeavesNoTrace == [][RealRunCreates]_vars

(***************************************************************************)
(* Vocabulary of the projection of expected counts.                        *)
(***************************************************************************)
\* The projection has been computed.
Projected == eff_pc = "done" /\ fn = "projection"

XKBins == 0..(xK_edges.bins - 1)
XBBins == 0..(xB_edges.bins - 1)
Q2Bins == 0..(Q2_edges.bins - 1)

\* The total of the projected counts of a Q2 bin, over the xK bins.
TotalOverXK(iQ) ==
    QSumOver([k \in XKBins |-> Nexp_xK_Q2[<<k, iQ>>]], XKBins)

\* The total of the expected counts of a Q2 bin, over the xB bins of a set.
TotalOverXB(iQ, bins) ==
    SumOver([b \in XBBins |-> Nexp_xB_Q2[<<b, iQ>>]], bins)

\* The xB bins whose column of the occupancy histogram is not empty.
Populated(iQ) == { b \in XBBins : ColumnTotal(counts, b, iQ) > 0 }

(***************************************************************************)
(* C29 as stated: for every fixed Q2 bin the sum over the xK bins of       *)
(* Nexp_xK_Q2 equals the sum over the xB bins of Nexp_xB_Q2, for any       *)
(* occupancy counts M and any expected-count vector.                       *)
(***************************************************************************)
C29_TotalConserved ==
    Projected =>
        \A iQ \in Q2Bins :
            SameNumber(TotalOverXK(iQ), Q(TotalOverXB(iQ, XBBins)))

(***************************************************************************)
(* C29: for every fixed Q2 bin the sum over the xK bins of Nexp_xK_Q2      *)
(* equals the sum of Nexp_xB_Q2 over the xB bins whose column of M is not  *)
(* empty; the expected counts of an xB bin with an empty column are lost.  *)
(***************************************************************************)
C29_PopulatedTotalConserved ==
    Projected =>
        \A iQ \in Q2Bins :
            SameNumber(TotalOverXK(iQ), Q(TotalOverXB(iQ, Populated(iQ))))

\* A projection where one xB bin with expected counts has an empty column
\* and another feeds two xK bins.
C29_Witness ==
    /\ Projected
    /\ \E iQ \in Q2Bins :
         /\ \E b \in XBBins \ Populated(iQ) : Nexp_xB_Q2[<<b, iQ>>] > 0
         /\ \E b \in Populated(iQ) :
              /\ Nexp_xB_Q2[<<b, iQ>>] > 0
              /\ \A k \in XKBins : counts[<<k, b, iQ>>] > 0

(***************************************************************************)
(* padding_rename.py, lines 6-17: every file of a directory named          *)
(* <prefix>_<number><ext> is renamed to carry its number with four digits. *)
(* A file name is held as the three groups of the regular expression; a    *)
(* name the expression does not match has no digits.                       *)
(***************************************************************************)
\* Most files the directory holds.
MaxDirFiles == 3

\* The digit strings of the file names.
NumberPool ==
    { <<1>>, <<0, 1>>, <<0, 0, 0, 1>>, <<0, 0, 0, 0, 1>>, <<1, 2>>,
      <<1, 2, 3, 4, 5>> }

\* The file names: names of the pattern, and one that does not match.
NamePool ==
    { [prefix |-> "k_", number |-> d, ext |-> ".root"] : d \in NumberPool }
    \cup { [prefix |-> "readme", number |-> <<>>, ext |-> ""] }

\* re.match(r'^(.+_)(\d+)(\..+)$', filename)
re_match(filename) == filename.number # <<>>

\* int(number)
RECURSIVE int(_)
int(number) ==
    IF number = <<>> THEN 0
    ELSE 10 * int(SubSeq(number, 1, Len(number) - 1)) + number[Len(number)]

\* The decimal digits of a natural number, without leading zeros.
RECURSIVE str(_)
str(n) == IF n < 10 THEN <<n>> ELSE Append(str(n \div 10), n % 10)

\* f"{n:04d}": zeros in front up to four digits.
RECURSIVE zfill4(_)
zfill4(digits) ==
    IF Len(digits) >= 4 THEN digits ELSE zfill4(<<0>> \o digits)

\* new_name = f"{prefix}{int(number):04d}{ext}"
new_name(filename) ==
    [prefix |-> filename.prefix,
     number |-> zfill4(str(int(filename.number))),
     ext |-> filename.ext]

\* The names of the files of a directory.
Names(dir) == { f.name : f \in dir }

\* The orders in which os.listdir may give a set of names.
Listings(names) ==
    { s \in [1..Cardinality(names) -> names] :
        \A a, b \in 1..Cardinality(names) : a # b => s[a] # s[b] }

\* The script starts on a directory; every file holds what it was named
\* for, and os.listdir gives the names in any order.
PrInit ==
    /\ \E names \in SUBSET NamePool :
         /\ Cardinality(names) <= MaxDirFiles
         /\ pr_initial = { [name |-> n, content |-> n] : n \in names }
         /\ pr_listing \in Listings(names)
    /\ pr_dir = pr_initial
    /\ pr_k = 1
    /\ pr_run = 1
    /\ pr_renamed = 0
    /\ pr_overwritten = {}
    /\ pr_pc = "loop"
    /\ prAlone

\* One iteration of "for filename in os.listdir(directory)".  os.rename
\* onto an existing name replaces that file on POSIX and raises
\* FileExistsError on Windows.
rename_step ==
    /\ pr_pc = "loop"
    /\ prFrame
    /\ pr_k <= Len(pr_listing)
    /\ LET filename == pr_listing[pr_k]
           target == new_name(filename)
           moved == { [name |-> target, content |-> f.content] :
                        f \in { g \in pr_dir : g.name = filename } }
           lost == { g \in pr_dir : g.name = target }
       IN  IF re_match(filename) /\ filename # target
           THEN \/ /\ pr_dir' =
                        { g \in pr_dir : g.name \notin {filename, target} }
                            \cup moved
                   /\ pr_overwritten' =
                        pr_overwritten \cup { g.content : g \in lost }
                   /\ pr_renamed' = pr_renamed + 1
                   /\ pr_k' = pr_k + 1
                   /\ UNCHANGED pr_pc
                \/ /\ lost # {}
                   /\ pr_pc' = "raised"
                   /\ UNCHANGED <<pr_dir, pr_overwritten, pr_renamed, pr_k>>
           ELSE /\ pr_k' = pr_k + 1
                /\ UNCHANGED <<pr_dir, pr_overwritten, pr_renamed, pr_pc>>
    /\ UNCHANGED <<pr_initial, pr_listing, pr_run>>

\* The loop is over and the script ends.
rename_done ==
    /\ pr_pc = "loop"
    /\ prFrame
    /\ pr_k > Len(pr_listing)
    /\ pr_pc' = "done"
    /\ UNCHANGED <<pr_initial, pr_dir, pr_listing, pr_k, pr_run, pr_renamed,
                   pr_overwritten>>

\* The script is started a second time on the same directory.
rename_again ==
    /\ pr_pc = "done"
    /\ prFrame
    /\ pr_run = 1
    /\ pr_run' = 2
    /\ pr_listing' \in Listings(Names(pr_dir))
    /\ pr_k' = 1
    /\ pr_renamed' = 0
    /\ pr_pc' = "loop"
    /\ UNCHANGED <<pr_initial, pr_dir, pr_overwritten>>

PrNext ==
    \/ rename_step
    \/ rename_done
    \/ rename_again

SpecPr == PrInit /\ [][PrNext]_vars

(***************************************************************************)
(* C30: padding_rename never loses a file: after the rename loop the       *)
(* directory holds as many files as before, every file named               *)
(* <prefix>_<number><ext> is found under its four-digit name, no rename    *)
(* has replaced another file, and a second run renames nothing.            *)
(***************************************************************************)
C30_NoFileLost ==
    /\ pr_pc # "raised"
    /\ pr_overwritten = {}
    /\ pr_pc = "done" =>
          /\ Cardinality(pr_dir) = Cardinality(pr_initial)
          /\ \A f \in pr_initial :
                re_match(f.name) =>
                    [name |-> new_name(f.name), content |-> f.content]
                        \in pr_dir
    /\ pr_run = 2 => pr_renamed = 0

\* The part of C30 that holds: a second run renames nothing.
C30_SecondRunRenamesNothing == pr_run = 2 => pr_renamed = 0

====
